---- MODULE Spec2Model ----
(***************************************************************************)
(* A model of the atlas multi-pipeline block indexer                       *)
(* (crates/indexer, crates/common, crates/explorer).                       *)
(*                                                                         *)
(* Each long-running worker is a small state machine whose position (pc)   *)
(* sits at an await point of its Rust loop; the column store is a set of   *)
(* tables; the gateway is a fixed chain of blocks plus a nondeterministic  *)
(* choice of transport errors.                                             *)
(***************************************************************************)
EXTENDS Integers, Sequences, FiniteSets, TLC

VARIABLES
    env,                    \* what the gateway, the store and the clock may do in this behaviour
    active,                 \* the streams whose worker runs in this behaviour
    worker,                 \* per stream: the locals of run_mainnet_worker / run_token_worker
    restarts,               \* number of process restarts so far
    mainnet_messages,       \* table ao_mainnet_messages
    mainnet_message_tags,   \* table ao_mainnet_message_tags
    mainnet_block_state,    \* table ao_mainnet_block_state, rows in updated_at order
    ao_token_messages,      \* table ao_token_messages
    ao_token_message_tags,  \* table ao_token_message_tags
    ao_token_block_state,   \* table ao_token_block_state, rows in updated_at order
    stats,                  \* the locals of run_stats_indexer_from (the global stats thread)
    atlas_explorer,         \* table atlas_explorer, one row per height
    run,                    \* the locals of Indexer::run (the supervisor task)
    tail,                   \* the locals of run_mainnet_explorer_tail
    mainnet_explorer,       \* table ao_mainnet_explorer, one row per height
    explorer_before,        \* history: ao_mainnet_explorer when the process last stopped
    raw_before,             \* history: the raw message and tag tables at that moment
    oracle_snapshots,       \* table oracle_snapshots (MergeTree), rows in insert order
    wallet_balances,        \* table wallet_balances
    wallet_delegations,     \* table wallet_delegations
    flp_positions,          \* table flp_positions
    delegation_mappings,    \* table delegation_mappings
    cycle,                  \* the locals of run_once / index_ticker, the clock, the oracle feed
    deleg                   \* an input of get_wallet_delegations and its result

storeVars == <<mainnet_messages, mainnet_message_tags, mainnet_block_state,
               ao_token_messages, ao_token_message_tags, ao_token_block_state>>

statsVars == <<stats, atlas_explorer>>

snapVars == <<oracle_snapshots, wallet_balances, wallet_delegations, flp_positions,
              delegation_mappings, cycle, deleg>>

procVars == <<run, tail, mainnet_explorer, explorer_before, raw_before, snapVars>>

vars == <<env, active, worker, restarts, storeVars, statsVars, procVars>>

(***************************************************************************)
(* Bounds of the model.                                                    *)
(***************************************************************************)
\* heights of each stream's chain that the model walks (from the start height)
MaxBlocks == 4

\* bodies without an edges array that the gateway answers a token worker per behaviour
MaxEdgeless == 1

\* process restarts per behaviour
MaxRestarts == 1

(***************************************************************************)
(* Program constants.                                                      *)
(***************************************************************************)
ARWEAVE_TIP_SAFE_GAP == 3
DATA_PROTOCOL_A_START == 1594020
DATA_PROTOCOL_B_START == 1616999
AO_TOKEN_START == 1606012
PI_TOKEN_START == 1638421

\* the checkpoint the global stats indexer starts from; tx_count_rolling is a u64
\* above 2^31 and is kept as hi * 10^6 + lo
LATEST_AGG_STATS_SET ==
    [height |-> 1802758, timestamp |-> 1764114408, tx_count |-> 125657,
     eval_count |-> 69, transfer_count |-> 2902, new_process_count |-> 3,
     new_module_count |-> 0, active_users |-> 87, active_processes |-> 883,
     tx_count_rolling |-> [hi |-> 2771, lo |-> 411066],
     processes_rolling |-> 540463, modules_rolling |-> 10157]

MainnetStreams == {"A", "B"}
TokenStreams == {"ao", "pi"}
Streams == MainnetStreams \cup TokenStreams
\* the long-running workers: the stream workers and the global stats thread
Components == Streams \cup {"stats"}

\* spawn_mainnet_indexer / spawn_ao_token_indexer: the start height of each stream
StartHeight(s) ==
    CASE s = "A" -> DATA_PROTOCOL_A_START
      [] s = "B" -> DATA_PROTOCOL_B_START
      [] s = "ao" -> AO_TOKEN_START
      [] s = "pi" -> PI_TOKEN_START
      [] s = "stats" -> LATEST_AGG_STATS_SET.height + 1

\* the last height of stream s that the model follows its worker through
MaxHeight(s) == StartHeight(s) + env.blocks[s] - 1

(***************************************************************************)
(* Option<T>: None is the empty sequence, Some(x) the one-element one.     *)
(***************************************************************************)
None == <<>>
Some(x) == <<x>>
IsSome(o) == o # None
Unwrap(o) == o[1]

\* Option<T>::unwrap_or
unwrap_or(o, d) == IF IsSome(o) THEN Unwrap(o) ELSE d

\* Option<String>::unwrap_or_default
unwrap_or_default(o) == IF IsSome(o) THEN Unwrap(o) ELSE ""

SetMax(S) == CHOOSE x \in S : \A y \in S : y <= x

Max(a, b) == IF a >= b THEN a ELSE b

\* u32::saturating_add; u32::MAX is far above every height of the model
saturating_add(x, y) == x + y

(***************************************************************************)
(* Error messages.  anyhow errors are classified by substring tests on     *)
(* their text; a message is modelled as its sequence of words.             *)
(***************************************************************************)
ErrEmptyBlock == <<"error", ":", "no", "ao", "message", "id", "found", "for", "the", "given", "query">>
ErrNoTransactions == <<"error", ":", "no", "transactions", "object", "found", "for", "the", "ao", "mainnet", "blocks", "query">>
ErrNoTransactionsToken == <<"error", ":", "no", "transactions", "object", "found", "for", "the", "ao", "token", "query">>
ErrNoEdges == <<"error", ":", "no", "ao", "message", "edges", "found", "for", "the", "ao", "mainnet", "blocks", "query">>
ErrHttp429 == <<"http", "status", ":", "429">>
ErrHttp503 == <<"http", "status", ":", "503">>
ErrHttp404 == <<"http", "status", ":", "404">>
ErrHttp400 == <<"http", "status", ":", "400">>
ErrTimeout == <<"timeout", ":", "global">>
ErrIoTimedOut == <<"io", ":", "Operation", "timed", "out">>
ErrConnReset == <<"io", ":", "Connection", "reset", "by", "peer">>

\* transport errors a gateway call can end with
TransportErrors == {ErrHttp429, ErrHttp503, ErrHttp404, ErrHttp400, ErrTimeout,
                    ErrIoTimedOut, ErrConnReset}

\* bodies the gateway can answer with that lack a part of the response: the
\* transactions object, or its edges array
NoTransactionsBody == <<"body", "without", "transactions">>
NoEdgesBody == <<"body", "without", "edges">>
BodyFaults == {NoTransactionsBody, NoEdgesBody}

\* what can go wrong with one GraphQL request
GatewayFaults == TransportErrors \cup BodyFaults

\* str::to_ascii_lowercase on the words the model uses
Lower(w) ==
    CASE w = "Action" -> "action"
      [] w = "Transfer" -> "transfer"
      [] w = "TRANSFER" -> "transfer"
      [] w = "Eval" -> "eval"
      [] w = "Type" -> "type"
      [] w = "Process" -> "process"
      [] w = "Module" -> "module"
      [] w = "From-Process" -> "from-process"
      [] w = "Operation" -> "operation"
      [] w = "Connection" -> "connection"
      [] OTHER -> w

LowerSeq(msg) == [i \in DOMAIN msg |-> Lower(msg[i])]

\* str::contains: pat occurs in msg as a contiguous run of words
Contains(msg, pat) ==
    \E i \in 0..(Len(msg) - Len(pat)) :
        \A j \in 1..Len(pat) : msg[i + j] = pat[j]

\* str::parse::<u16> on the status words the model uses
ParseU16(w) ==
    CASE w = "429" -> Some(429)
      [] w = "503" -> Some(503)
      [] w = "404" -> Some(404)
      [] w = "400" -> Some(400)
      [] OTHER -> None

\* an empty-block test that looks for another text
is_empty_block_error_other(err) == Contains(err, <<"empty", "block">>)

is_empty_block_error(err) == Contains(err, <<"no", "ao", "message", "id", "found">>)

is_rate_limit_error(err) == Contains(err, <<"http", "status", ":", "429">>)

is_timeout_error(err) ==
    \/ Contains(LowerSeq(err), <<"timeout">>)
    \/ Contains(LowerSeq(err), <<"timed", "out">>)

is_retryable_http_error(err) ==
    LET pat == <<"http", "status", ":">>
        hits == {i \in 0..(Len(err) - Len(pat)) :
                    \A j \in 1..Len(pat) : err[i + j] = pat[j]}
    IN  /\ hits # {}
        /\ LET first == CHOOSE i \in hits : \A k \in hits : i <= k
               at == first + Len(pat) + 1
           IN  /\ at <= Len(err)
               /\ IsSome(ParseU16(err[at]))
               /\ Unwrap(ParseU16(err[at])) >= 500
               /\ Unwrap(ParseU16(err[at])) < 600

is_not_found_error(err) == Contains(err, <<"http", "status", ":", "404">>)

(***************************************************************************)
(* The gateway.  A GraphQL response is the transactions object (present or *)
(* not), its edges array (present or not) and hasNextPage; every field the *)
(* scanners read through Option chains may be absent.                      *)
(* The chain is fixed, so that every fetch of the same (stream, query,     *)
(* height, cursor) sees identical data; block kinds repeat with period 4.  *)
(***************************************************************************)
Tag(k, v) == [key |-> k, value |-> v]

Edge(cur, id, h, tags) == [cursor |-> cur, id |-> id, height |-> h, tags |-> tags]

Resp(edges, next) == [transactions |-> TRUE, edges |-> Some(edges), hasNextPage |-> next]

NoEdges == Resp(<<>>, FALSE)

\* the response as the gateway sends it when the request meets the fault
WithFault(fault, resp) ==
    CASE fault = NoTransactionsBody -> [resp EXCEPT !.transactions = FALSE, !.edges = None]
      [] fault = NoEdgesBody -> [resp EXCEPT !.edges = None]
      [] OTHER -> resp

\* DataProtocol::tags: variant A writes lower-case tag keys, variant B Header-Case
TagKey(s, name) == IF s = "A" THEN Lower(name) ELSE name

BlockKind(q, k) ==
    IF q = "process"
    THEN <<"empty", "single", "paged", "single">>[(k % 4) + 1]
    ELSE <<"single", "paged", "empty", "nocursor">>[(k % 4) + 1]

\* the messages of protocol B start two blocks later than those of protocol A: its
\* first block is an empty one
ChainShift(s) == IF s = "B" THEN 2 ELSE 0

MsgId(q, h, i) == <<q, h, i>>

\* the opaque pagination token of the i-th edge of a block
Cur(i) == <<"c1", "c2", "c3", "c4", "c5">>[i]

\* the tags of the i-th message of a block
EdgeTags(s, q, i) ==
    CASE q = "mainnet" /\ i = 1 -> <<Tag(TagKey(s, "Type"), "Process")>>
      [] q = "mainnet" /\ i = 2 -> <<Tag(TagKey(s, "Action"), "Eval"),
                                     Tag(TagKey(s, "From-Process"), "p1")>>
      [] q = "mainnet" /\ i = 3 -> <<>>
      [] q = "transfer" /\ i = 1 -> <<Tag("Action", "Transfer")>>
      [] q = "transfer" /\ i = 2 -> <<Tag("action", "TRANSFER"), Tag("Quantity", "5")>>
      [] q = "transfer" /\ i = 3 -> <<Tag("Action", "Transfer")>>
      [] q = "process" /\ i = 1 -> <<Tag("From-Process", "pid")>>
      [] q = "process" /\ i = 2 -> <<Tag("From-Process", "pid"), Tag("Action", "Eval")>>
      [] q = "process" /\ i = 3 -> <<>>
      [] OTHER -> <<Tag("Action", "Eval")>>

\* the mainnet query template asks for no edge cursor; the token template does
EdgeCursor(q, kind, c) ==
    IF kind = "nocursor" \/ (q = "mainnet" /\ kind = "single") THEN None ELSE Some(c)

GatewayResponse(s, q, h, after) ==
    IF h < StartHeight(s) THEN NoEdges
    ELSE
    LET kind == BlockKind(q, h - StartHeight(s) + ChainShift(s))
        E(i) == Edge(EdgeCursor(q, kind, Cur(i)), Some(MsgId(q, h, i)), Some(h),
                     EdgeTags(s, q, i))
    IN  CASE kind = "single" /\ after = None ->
                Resp(<<E(1)>>, FALSE)
          [] kind = "nocursor" /\ after = None ->
                Resp(<<E(1)>>, TRUE)
          [] kind = "paged" /\ after = None ->
                Resp(<<E(1), E(2)>>, TRUE)
          [] kind = "paged" /\ after = Some(Cur(2)) ->
                Resp(<<E(3),
                       Edge(Some(Cur(4)), None, Some(h), <<>>),
                       Edge(Some(Cur(5)), Some(MsgId(q, h, 5)), Some(h),
                            <<Tag("Action", "Eval")>>)>>,
                     FALSE)
          [] OTHER -> NoEdges

(***************************************************************************)
(* The scanners: response -> page, or an error.                            *)
(***************************************************************************)
NoPage == [mappings |-> <<>>, has_next_page |-> FALSE, end_cursor |-> None]

\* last_cursor: the cursor of the last edge that carries one
LastCursor(edges) ==
    LET idx == {i \in DOMAIN edges : IsSome(edges[i].cursor)}
    IN  IF idx = {} THEN None ELSE edges[SetMax(idx)].cursor

\* block.height, unwrap_or(0)
NodeHeight(e) == IF IsSome(e.height) THEN Unwrap(e.height) ELSE 0

Meta(e) == [msg_id |-> Unwrap(e.id), block_height |-> NodeHeight(e), tags |-> e.tags]

RECURSIVE MapMeta(_)
MapMeta(edges) ==
    IF edges = <<>> THEN <<>> ELSE <<Meta(Head(edges))>> \o MapMeta(Tail(edges))

has_action_transfer(tags) ==
    \E i \in DOMAIN tags :
        /\ Lower(tags[i].key) = Lower("action")
        /\ Lower(tags[i].value) = Lower("transfer")

\* a protocol scan without the test for an empty result
scan_arweave_block_for_msgs_lenient(resp) ==
    LET edges == unwrap_or(resp.edges, <<>>)
    IN  [err |-> <<>>,
         page |-> [mappings |-> MapMeta(SelectSeq(edges, LAMBDA e : IsSome(e.id))),
                   has_next_page |-> resp.hasNextPage,
                   end_cursor |-> LastCursor(edges)]]

\* scan_arweave_block_for_msgs, from the parsed response on
scan_arweave_block_for_msgs(resp) ==
    IF ~resp.transactions THEN [err |-> ErrNoTransactions, page |-> NoPage]
    ELSE IF resp.edges = None THEN [err |-> ErrNoEdges, page |-> NoPage]
    ELSE LET edges == Unwrap(resp.edges)
             out == MapMeta(SelectSeq(edges, LAMBDA e : IsSome(e.id)))
         IN  IF out = <<>>
             THEN [err |-> ErrEmptyBlock, page |-> NoPage]
             ELSE [err |-> <<>>,
                   page |-> [mappings |-> out,
                             has_next_page |-> resp.hasNextPage,
                             end_cursor |-> LastCursor(edges)]]

\* scan_arweave_block_for_ao_token_msgs, from the parsed response on
scan_arweave_block_for_token_msgs(q, resp) ==
    LET keep(e) == /\ IsSome(e.id)
                   /\ (q = "transfer" => has_action_transfer(e.tags))
        edges == unwrap_or(resp.edges, <<>>)
        out == MapMeta(SelectSeq(edges, keep))
    IN  IF ~resp.transactions THEN [err |-> ErrNoTransactionsToken, page |-> NoPage]
        ELSE [err |-> <<>>,
              page |-> [mappings |-> out,
                        has_next_page |-> resp.hasNextPage,
                        end_cursor |-> LastCursor(edges)]]

(***************************************************************************)
(* The column store.  A ReplacingMergeTree table is the set of its rows    *)
(* (ingest timestamps left out); a block-state table keeps every row in    *)
(* the order of updated_at, the latest row last.                           *)
(***************************************************************************)
\* a store call ends Ok (the empty message) or with one of these errors
StoreErrors == {<<"clickhouse", ":", "bad", "response">>,
                <<"clickhouse", ":", "network", "error", ":", "operation", "timed", "out">>}

StoreOutcomes == {<<>>} \cup (StoreErrors \cap env.store)

\* the error of a store call dropped instead of returned
AfterStoreSwallowed(ins, next) == next

\* the `?` after a store call: go on at next, or return the error from the task
AfterStore(ins, next) == IF ins = <<>> THEN next ELSE "failed"

\* Clickhouse::insert_rows: an empty batch returns Ok without a store call
InsertOutcomes(rows) == IF rows = {} THEN {<<>>} ELSE StoreOutcomes

\* Clickhouse::fetch_mainnet_block_state: order by updated_at desc limit 1
fetch_mainnet_block_state(table, protocol) ==
    LET rows == SelectSeq(table, LAMBDA r : r.protocol = protocol)
    IN  IF rows = <<>> THEN None ELSE Some(rows[Len(rows)])

\* Clickhouse::fetch_ao_token_block_state: the latest row of the token
fetch_ao_token_block_state(table, token) ==
    LET rows == SelectSeq(table, LAMBDA r : r.token = token)
    IN  IF rows = <<>> THEN None ELSE Some(rows[Len(rows)])

\* a block-state row written one height ahead
MainnetBlockStateRowAhead(protocol, h, c) ==
    [protocol |-> protocol, last_complete_height |-> h + 1, last_cursor |-> c]

MainnetBlockStateRow(protocol, h, c) ==
    [protocol |-> protocol, last_complete_height |-> h, last_cursor |-> c]

AoTokenBlockStateRow(token, h) == [token |-> token, last_complete_height |-> h]

\* run_mainnet_worker: the message rows built from a page
MainnetMessageRows(protocol, page) ==
    {[protocol |-> protocol,
      block_height |-> page.mappings[i].block_height,
      msg_id |-> page.mappings[i].msg_id] : i \in DOMAIN page.mappings}

\* run_mainnet_worker: the tag rows built from a page
MainnetTagRows(protocol, page) ==
    UNION {{[protocol |-> protocol,
             block_height |-> page.mappings[i].block_height,
             msg_id |-> page.mappings[i].msg_id,
             tag_key |-> page.mappings[i].tags[j].key,
             tag_value |-> page.mappings[i].tags[j].value]
            : j \in DOMAIN page.mappings[i].tags} : i \in DOMAIN page.mappings}

\* ingest_token_query: the message rows built from a page
TokenMessageRows(token, source, page) ==
    {[token |-> token, source |-> source,
      block_height |-> page.mappings[i].block_height,
      msg_id |-> page.mappings[i].msg_id] : i \in DOMAIN page.mappings}

\* ingest_token_query: the tag rows built from a page
TokenTagRows(token, source, page) ==
    UNION {{[token |-> token, source |-> source,
             block_height |-> page.mappings[i].block_height,
             msg_id |-> page.mappings[i].msg_id,
             tag_key |-> page.mappings[i].tags[j].key,
             tag_value |-> page.mappings[i].tags[j].value]
            : j \in DOMAIN page.mappings[i].tags} : i \in DOMAIN page.mappings}

(***************************************************************************)
(* Worker locals.                                                          *)
(*   pc: "off" (not spawned), "resume", "first_tip", "loop" (top of the    *)
(*   loop), "insert_empty_state" (protocol worker, empty block),           *)
(*       "ingest" (inside ingest_token_query, before a fetch),             *)
(*       "insert_messages", "insert_tags", "advance" (before the           *)
(*       block-state insert), "failed" (the task returned Err).            *)
(*   lastReq / lastErr record the most recent page request and its error,  *)
(*   slept the seconds of the sleep that followed it (0: none).            *)
(***************************************************************************)
NoReq == [height |-> 0, cursor |-> None, query |-> "none", tip |-> 0]

FirstQuery(s) == IF s \in MainnetStreams THEN "mainnet" ELSE "transfer"

InitWorker(s) ==
    [pc |-> "resume", height |-> StartHeight(s), cursor |-> None, network_tip |-> 0,
     tipOk |-> TRUE, page |-> NoPage, query |-> FirstQuery(s),
     lastReq |-> NoReq, lastErr |-> <<>>, slept |-> 0]

OffWorker(s) == [InitWorker(s) EXCEPT !.pc = "off"]

\* fetch_network_height: Ok(tip) around the guard's threshold for height h, or Err
TipOutcomes(h) ==
    {[ok |-> TRUE, val |-> h + ARWEAVE_TIP_SAFE_GAP + d] : d \in env.tips}
        \cup (IF env.tipFails THEN {[ok |-> FALSE, val |-> 0]} ELSE {})

\* a tip guard without the safe gap
TipBehindNoGap(h, tip) == h > tip

\* the tip guard: while height as u64 + ARWEAVE_TIP_SAFE_GAP > network_tip
TipBehind(h, tip) == h + ARWEAVE_TIP_SAFE_GAP > tip

\* resume that ignores the stored block state
ResumeMainnetFresh(state, start) == [height |-> start, cursor |-> None]

\* a resume that always moves past the stored height and drops the cursor
ResumeMainnetSkip(state, start) ==
    IF state = None THEN [height |-> start, cursor |-> None]
    ELSE [height |-> saturating_add(Max(Unwrap(state).last_complete_height, start), 1),
          cursor |-> None]

\* run_mainnet_worker: height and cursor after loading the block state
ResumeMainnet(state, start) ==
    IF state = None THEN [height |-> start, cursor |-> None]
    ELSE LET st == Unwrap(state)
             h == Max(st.last_complete_height, start)
         IN  IF st.last_cursor # ""
             THEN [height |-> h, cursor |-> Some(st.last_cursor)]
             ELSE [height |-> saturating_add(h, 1), cursor |-> None]

\* run_token_worker: height after loading the block state
ResumeToken(state, start) ==
    IF state = None THEN start
    ELSE saturating_add(Max(Unwrap(state).last_complete_height, start), 1)

(***************************************************************************)
(* run_mainnet_worker                                                      *)
(***************************************************************************)
W(s) == worker[s]

SetW(s, w) == worker' = [worker EXCEPT ![s] = w]

\* the outcome of a page fetch of the protocol worker: a transport error, or the scan
\* of the body received
MainnetFetch(s, fault, h, c) ==
    IF fault \in TransportErrors THEN [err |-> fault, page |-> NoPage]
    ELSE scan_arweave_block_for_msgs(WithFault(fault, GatewayResponse(s, "mainnet", h, c)))

\* the protocol worker returning the error
MainnetFetchErrorPcFailed(err) == "failed"

\* the position after a failed page fetch that is not an empty block: sleep, continue
MainnetFetchErrorPc(err) == "loop"

\* a delay that does not look at the error
MainnetBackoffFlat(err) == 1

\* lines 479-484: the delay slept before the `continue` of a failed page fetch
MainnetBackoff(err) == IF is_rate_limit_error(err) THEN 5 ELSE 1

\* a next cursor that does not look at has_next_page
NextCursorAlways(page) == page.end_cursor

\* cursor = if page.has_next_page { page.end_cursor.clone() } else { None }
NextCursor(page) == IF page.has_next_page THEN page.end_cursor ELSE None

\* lines 432-441: load the block state
MainnetResume(s) ==
    /\ s \in active \cap MainnetStreams
    /\ W(s).pc = "resume"
    /\ \E read \in StoreOutcomes :
        IF read # <<>>
        THEN SetW(s, [W(s) EXCEPT !.pc = AfterStore(read, "failed")])
        ELSE LET r == ResumeMainnet(fetch_mainnet_block_state(mainnet_block_state, s),
                                    StartHeight(s))
             IN  SetW(s, [W(s) EXCEPT !.pc = "first_tip",
                                      !.height = r.height,
                                      !.cursor = r.cursor])
    /\ UNCHANGED <<procVars, statsVars, env, active, restarts, storeVars>>

\* line 443: fetch_network_height().await.unwrap_or(height as u64)
MainnetFirstTip(s) ==
    /\ s \in active \cap MainnetStreams
    /\ W(s).pc = "first_tip"
    /\ \E tip \in TipOutcomes(W(s).height) :
        SetW(s, [W(s) EXCEPT !.pc = "loop",
                             !.network_tip = IF tip.ok THEN tip.val ELSE W(s).height,
                             !.tipOk = tip.ok])
    /\ UNCHANGED <<procVars, statsVars, env, active, restarts, storeVars>>

\* lines 445-458: behind the safe gap, refresh the tip and sleep
MainnetTipGuard(s) ==
    /\ s \in active \cap MainnetStreams
    /\ W(s).pc = "loop"
    /\ W(s).height <= MaxHeight(s)
    /\ TipBehind(W(s).height, W(s).network_tip)
    /\ \E tip \in TipOutcomes(W(s).height) :
        SetW(s, [W(s) EXCEPT !.network_tip = IF tip.ok THEN tip.val ELSE @,
                             !.tipOk = tip.ok])
    /\ UNCHANGED <<procVars, statsVars, env, active, restarts, storeVars>>

\* lines 459-486: fetch the page at (height, cursor)
MainnetFetchPage(s) ==
    /\ s \in active \cap MainnetStreams
    /\ W(s).pc = "loop"
    /\ W(s).height <= MaxHeight(s)
    /\ ~TipBehind(W(s).height, W(s).network_tip)
    /\ \E transport \in {<<>>} \cup (GatewayFaults \cap env.transport) :
        LET res == MainnetFetch(s, transport, W(s).height, W(s).cursor)
            req == [height |-> W(s).height, cursor |-> W(s).cursor, query |-> "mainnet",
                    tip |-> W(s).network_tip]
        IN  IF res.err = <<>>
            THEN /\ SetW(s, [W(s) EXCEPT !.pc = "insert_messages", !.page = res.page,
                                         !.lastReq = req, !.lastErr = <<>>,
                                         !.slept = 0])
                 /\ UNCHANGED mainnet_block_state
            ELSE IF is_empty_block_error(res.err)
            THEN /\ SetW(s, [W(s) EXCEPT !.pc = "insert_empty_state", !.cursor = None,
                                         !.lastReq = req, !.lastErr = res.err,
                                         !.slept = 0])
                 /\ UNCHANGED mainnet_block_state
            ELSE /\ SetW(s, [W(s) EXCEPT !.pc = MainnetFetchErrorPc(res.err),
                                         !.lastReq = req, !.lastErr = res.err,
                                         !.slept = MainnetBackoff(res.err)])
                 /\ UNCHANGED mainnet_block_state
    /\ UNCHANGED <<procVars, statsVars, env, active, restarts, mainnet_messages, mainnet_message_tags,
                   ao_token_messages, ao_token_message_tags, ao_token_block_state>>

\* lines 465-472: the block-state row of an empty block, then the next height
MainnetInsertEmptyState(s) ==
    /\ s \in active \cap MainnetStreams
    /\ W(s).pc = "insert_empty_state"
    /\ \E ins \in StoreOutcomes :
        /\ mainnet_block_state' =
                IF ins = <<>>
                THEN Append(mainnet_block_state, MainnetBlockStateRow(s, W(s).height, ""))
                ELSE mainnet_block_state
        /\ SetW(s, IF AfterStore(ins, "loop") = "loop"
                   THEN [W(s) EXCEPT !.pc = "loop", !.height = saturating_add(@, 1)]
                   ELSE [W(s) EXCEPT !.pc = "failed"])
    /\ UNCHANGED <<procVars, statsVars, env, active, restarts, mainnet_messages, mainnet_message_tags,
                   ao_token_messages, ao_token_message_tags, ao_token_block_state>>

\* line 524: clickhouse.insert_mainnet_messages(&message_rows).await?
MainnetInsertMessages(s) ==
    /\ s \in active \cap MainnetStreams
    /\ W(s).pc = "insert_messages"
    /\ LET rows == MainnetMessageRows(s, W(s).page)
       IN  \E ins \in InsertOutcomes(rows) :
            /\ mainnet_messages' = IF ins = <<>> THEN mainnet_messages \cup rows
                                                  ELSE mainnet_messages
            /\ SetW(s, [W(s) EXCEPT !.pc = AfterStore(ins, "insert_tags")])
    /\ UNCHANGED <<procVars, statsVars, env, active, restarts, mainnet_message_tags, mainnet_block_state,
                   ao_token_messages, ao_token_message_tags, ao_token_block_state>>

\* line 525: clickhouse.insert_mainnet_message_tags(&tag_rows).await?
MainnetInsertTags(s) ==
    /\ s \in active \cap MainnetStreams
    /\ W(s).pc = "insert_tags"
    /\ LET rows == MainnetTagRows(s, W(s).page)
       IN  \E ins \in InsertOutcomes(rows) :
            /\ mainnet_message_tags' = IF ins = <<>> THEN mainnet_message_tags \cup rows
                                                      ELSE mainnet_message_tags
            /\ SetW(s, [W(s) EXCEPT !.pc = AfterStore(ins, "advance")])
    /\ UNCHANGED <<procVars, statsVars, env, active, restarts, mainnet_messages, mainnet_block_state,
                   ao_token_messages, ao_token_message_tags, ao_token_block_state>>

\* lines 526-547: set the cursor, write the block state, advance when the cursor is empty
MainnetAdvance(s) ==
    /\ s \in active \cap MainnetStreams
    /\ W(s).pc = "advance"
    /\ LET c == NextCursor(W(s).page)
       IN  \E ins \in StoreOutcomes :
            /\ mainnet_block_state' =
                    IF ins = <<>>
                    THEN Append(mainnet_block_state,
                                MainnetBlockStateRow(s, W(s).height, unwrap_or_default(c)))
                    ELSE mainnet_block_state
            /\ SetW(s, IF AfterStore(ins, "loop") = "loop"
                       THEN [W(s) EXCEPT !.pc = "loop", !.cursor = c, !.page = NoPage,
                                         !.height = IF c = None
                                                    THEN saturating_add(@, 1) ELSE @]
                       ELSE [W(s) EXCEPT !.pc = "failed", !.cursor = c])
    /\ UNCHANGED <<procVars, statsVars, env, active, restarts, mainnet_messages, mainnet_message_tags,
                   ao_token_messages, ao_token_message_tags, ao_token_block_state>>

(***************************************************************************)
(* run_token_worker and ingest_token_query                                 *)
(***************************************************************************)
\* the outcome of a page fetch of a token sub-query
TokenFetch(s, fault, q, h, c) ==
    IF fault \in TransportErrors THEN [err |-> fault, page |-> NoPage]
    ELSE scan_arweave_block_for_token_msgs(q, WithFault(fault, GatewayResponse(s, q, h, c)))

\* run_token_worker: an error of a sub-query is retried after 300 s or returned
TokenRetryable(err) ==
    \/ is_rate_limit_error(err)
    \/ is_timeout_error(err)
    \/ is_retryable_http_error(err)
    \/ is_not_found_error(err)

\* lines 595-603 and 612-620: 300 s before the `continue`, none before return Err
TokenBackoff(err) == IF TokenRetryable(err) THEN 300 ELSE 0

\* the token worker keeping on after any error
TokenErrorPcLoop(err) == "loop"

\* the position after a failed sub-query: `continue` at the loop top, or return Err
TokenErrorPc(err) == IF TokenRetryable(err) THEN "loop" ELSE "failed"

\* an error inside a sub-query that lets the worker go on to the block-state write
TokenAfterErrorAdvance(w, err) == [w EXCEPT !.pc = "advance", !.cursor = None, !.page = NoPage]

\* the worker after an error inside ingest_token_query: its cursor is dropped
TokenAfterError(w, err) ==
    [w EXCEPT !.pc = TokenErrorPc(err), !.query = "transfer", !.cursor = None,
              !.page = NoPage, !.slept = TokenBackoff(err)]

\* a pagination test that looks at has_next_page only
TokenHasMoreIgnoringCursor(page) == page.has_next_page

\* ingest_token_query lines 758-765: does the pagination loop fetch another page
TokenHasMore(page) == page.has_next_page /\ IsSome(page.end_cursor)

\* lines 552-558: load the block state
TokenResume(s) ==
    /\ s \in active \cap TokenStreams
    /\ W(s).pc = "resume"
    /\ \E read \in StoreOutcomes :
        IF read # <<>>
        THEN SetW(s, [W(s) EXCEPT !.pc = AfterStore(read, "failed")])
        ELSE SetW(s, [W(s) EXCEPT
                        !.pc = "first_tip",
                        !.height = ResumeToken(
                                        fetch_ao_token_block_state(ao_token_block_state, s),
                                        StartHeight(s))])
    /\ UNCHANGED <<procVars, statsVars, env, active, restarts, storeVars>>

\* line 560: fetch_network_height().await.unwrap_or(height as u64)
TokenFirstTip(s) ==
    /\ s \in active \cap TokenStreams
    /\ W(s).pc = "first_tip"
    /\ \E tip \in TipOutcomes(W(s).height) :
        SetW(s, [W(s) EXCEPT !.pc = "loop",
                             !.network_tip = IF tip.ok THEN tip.val ELSE W(s).height,
                             !.tipOk = tip.ok])
    /\ UNCHANGED <<procVars, statsVars, env, active, restarts, storeVars>>

\* lines 562-576
TokenTipGuard(s) ==
    /\ s \in active \cap TokenStreams
    /\ W(s).pc = "loop"
    /\ W(s).height <= MaxHeight(s)
    /\ TipBehind(W(s).height, W(s).network_tip)
    /\ \E tip \in TipOutcomes(W(s).height) :
        SetW(s, [W(s) EXCEPT !.network_tip = IF tip.ok THEN tip.val ELSE @,
                             !.tipOk = tip.ok])
    /\ UNCHANGED <<procVars, statsVars, env, active, restarts, storeVars>>

\* what can go wrong with one request of a token worker.  Its scanner reads a body
\* without edges as a page without messages; env.edgeless counts these answers
TokenFaults ==
    IF NoEdgesBody \in env.transport /\ env.edgeless >= MaxEdgeless
    THEN env.transport \ {NoEdgesBody}
    ELSE env.transport

\* ingest_token_query line 715, and the caller's match on its error (lines 587-624)
TokenFetchPage(s) ==
    /\ s \in active \cap TokenStreams
    /\ \/ W(s).pc = "ingest"
       \/ /\ W(s).pc = "loop"
          /\ W(s).height <= MaxHeight(s)
          /\ ~TipBehind(W(s).height, W(s).network_tip)
    /\ \E transport \in {<<>>} \cup (GatewayFaults \cap TokenFaults) :
        LET res == TokenFetch(s, transport, W(s).query, W(s).height, W(s).cursor)
            req == [height |-> W(s).height, cursor |-> W(s).cursor, query |-> W(s).query,
                    tip |-> W(s).network_tip]
        IN  /\ IF res.err = <<>>
               THEN SetW(s, [W(s) EXCEPT !.pc = "insert_messages", !.page = res.page,
                                         !.lastReq = req, !.lastErr = <<>>, !.slept = 0])
               ELSE SetW(s, [TokenAfterError(W(s), res.err) EXCEPT
                                         !.lastReq = req, !.lastErr = res.err])
            /\ env' = IF transport = NoEdgesBody THEN [env EXCEPT !.edgeless = @ + 1]
                      ELSE env
    /\ UNCHANGED <<procVars, statsVars, active, restarts, storeVars>>

\* ingest_token_query line 756
TokenInsertMessages(s) ==
    /\ s \in active \cap TokenStreams
    /\ W(s).pc = "insert_messages"
    /\ LET rows == TokenMessageRows(s, W(s).query, W(s).page)
       IN  \E ins \in InsertOutcomes(rows) :
            IF ins = <<>>
            THEN /\ ao_token_messages' = ao_token_messages \cup rows
                 /\ SetW(s, [W(s) EXCEPT !.pc = "insert_tags"])
            ELSE /\ SetW(s, TokenAfterError(W(s), ins))
                 /\ UNCHANGED ao_token_messages
    /\ UNCHANGED <<procVars, statsVars, env, active, restarts, mainnet_messages, mainnet_message_tags,
                   mainnet_block_state, ao_token_message_tags, ao_token_block_state>>

\* ingest_token_query lines 757-768, and the step to the next sub-query
TokenInsertTags(s) ==
    /\ s \in active \cap TokenStreams
    /\ W(s).pc = "insert_tags"
    /\ LET rows == TokenTagRows(s, W(s).query, W(s).page)
       IN  \E ins \in InsertOutcomes(rows) :
            IF ins = <<>>
            THEN /\ ao_token_message_tags' = ao_token_message_tags \cup rows
                 /\ SetW(s, IF TokenHasMore(W(s).page)
                            THEN [W(s) EXCEPT !.pc = "ingest",
                                              !.cursor = W(s).page.end_cursor,
                                              !.page = NoPage]
                            ELSE IF W(s).query = "transfer"
                            THEN [W(s) EXCEPT !.pc = "ingest", !.query = "process",
                                              !.cursor = None, !.page = NoPage]
                            ELSE [W(s) EXCEPT !.pc = "advance", !.cursor = None,
                                              !.page = NoPage])
            ELSE /\ SetW(s, TokenAfterError(W(s), ins))
                 /\ UNCHANGED ao_token_message_tags
    /\ UNCHANGED <<procVars, statsVars, env, active, restarts, mainnet_messages, mainnet_message_tags,
                   mainnet_block_state, ao_token_messages, ao_token_block_state>>

\* lines 626-637: write the block state of the height, advance
TokenAdvance(s) ==
    /\ s \in active \cap TokenStreams
    /\ W(s).pc = "advance"
    /\ \E ins \in StoreOutcomes :
        /\ ao_token_block_state' =
                IF ins = <<>>
                THEN Append(ao_token_block_state, AoTokenBlockStateRow(s, W(s).height))
                ELSE ao_token_block_state
        /\ SetW(s, IF AfterStore(ins, "loop") = "loop"
                   THEN [W(s) EXCEPT !.pc = "loop", !.query = "transfer",
                                     !.height = saturating_add(@, 1)]
                   ELSE [W(s) EXCEPT !.pc = "failed"])
    /\ UNCHANGED <<procVars, statsVars, env, active, restarts, mainnet_messages, mainnet_message_tags,
                   mainnet_block_state, ao_token_messages, ao_token_message_tags>>

(***************************************************************************)
(* The global stats indexer (crates/explorer): fetch_ao_page_with_cursor,  *)
(* fetch_full_block, aggregate_block, build_block_stats and                *)
(* run_stats_indexer_from with the handler of spawn_explorer_bridge.       *)
(***************************************************************************)
\* u64 addition on the split representation of tx_count_rolling
BigAdd(b, n) ==
    LET t == b.lo + n
    IN  [hi |-> b.hi + (t \div 1000000), lo |-> t % 1000000]

\* the block timestamp arweave.net/block/height/{h} reports
BlockTimestamp(h) == LATEST_AGG_STATS_SET.timestamp + (h - LATEST_AGG_STATS_SET.height) * 120

StatsBlockKind(k) == <<"single", "empty", "paged", "single">>[(k % 4) + 1]

\* the tags of the i-th transaction of a block of the "ao" data protocol
StatsTags(i) ==
    CASE i = 1 -> <<Tag("Type", "Process"), Tag("Process", "p0")>>
      [] i = 2 -> <<Tag("Action", "Eval"), Tag("Process", "p9"), Tag("From-Process", "p1")>>
      [] OTHER -> <<Tag("Action", "Transfer"), Tag("From-Process", "p1"),
                    Tag("Process", "p2")>>

\* the transactions edges of the gateway for block h after the cursor
StatsResponse(h, after) ==
    LET kind == StatsBlockKind(h - StartHeight("stats"))
        N(i) == [cursor |-> Cur(i), id |-> MsgId("stats", h, i), height |-> h,
                 timestamp |-> IF kind = "paged" THEN None ELSE Some(BlockTimestamp(h)),
                 owner |-> IF i = 3 THEN "w1" ELSE <<"w1", "w2">>[i], tags |-> StatsTags(i)]
    IN  CASE kind = "single" /\ after = None ->
                [edges |-> <<N(1)>>, hasNextPage |-> FALSE]
          [] kind = "paged" /\ after = None ->
                [edges |-> <<N(1), N(2)>>, hasNextPage |-> TRUE]
          [] kind = "paged" /\ after = Some(Cur(2)) ->
                [edges |-> <<N(3)>>, hasNextPage |-> FALSE]
          [] OTHER -> [edges |-> <<>>, hasNextPage |-> FALSE]

\* AoTx::from_node: the tag loop
RECURSIVE FromNodeTags(_, _)
FromNodeTags(tags, acc) ==
    IF tags = <<>> THEN acc
    ELSE LET t == Head(tags)
             nxt == CASE t.key = "Type" -> [acc EXCEPT !.tx_type = Some(t.value)]
                      [] t.key = "Action" -> [acc EXCEPT !.action = Some(t.value)]
                      [] t.key = "From-Process" -> [acc EXCEPT !.process = Some(t.value)]
                      [] t.key = "Process" ->
                            IF acc.process = None
                            THEN [acc EXCEPT !.process = Some(t.value)] ELSE acc
                      [] OTHER -> acc
         IN  FromNodeTags(Tail(tags), nxt)

AoTx_from_node(node) ==
    LET f == FromNodeTags(node.tags, [tx_type |-> None, action |-> None, process |-> None])
    IN  [id |-> node.id, block_height |-> node.height,
         block_timestamp |-> IF IsSome(node.timestamp) THEN Unwrap(node.timestamp) ELSE 0,
         owner |-> node.owner, tx_type |-> f.tx_type, action |-> f.action,
         process |-> f.process]

\* fetch_ao_page_with_cursor, from the parsed response on
fetch_ao_page_with_cursor(h, cursor) ==
    LET resp == StatsResponse(h, cursor)
    IN  [txs |-> [i \in DOMAIN resp.edges |-> AoTx_from_node(resp.edges[i])],
         cursor |-> IF resp.edges = <<>> THEN None
                    ELSE Some(resp.edges[Len(resp.edges)].cursor),
         has_more |-> resp.hasNextPage]

CountIf(txs, P(_)) == Cardinality({i \in DOMAIN txs : P(txs[i])})

\* aggregate_block, for the group of the transactions at height h (None when empty)
aggregate_block(all, h) ==
    LET block == SelectSeq(all, LAMBDA t : t.block_height = h)
    IN  IF block = <<>> THEN None
        ELSE Some(
            [height |-> h,
             timestamp |-> Max(block[1].block_timestamp, 0),
             tx_count |-> Len(block),
             eval_count |-> CountIf(block, LAMBDA t : t.action = Some("Eval")),
             transfer_count |-> CountIf(block, LAMBDA t : t.action = Some("Transfer")),
             new_process_count |-> CountIf(block, LAMBDA t : t.tx_type = Some("Process")),
             new_module_count |-> CountIf(block, LAMBDA t : t.tx_type = Some("Module")),
             active_users |-> Cardinality({block[i].owner : i \in DOMAIN block}),
             active_processes |->
                Cardinality({Unwrap(block[i].process) :
                                i \in {j \in DOMAIN block : IsSome(block[j].process)}}),
             tx_count_rolling |-> [hi |-> 0, lo |-> Len(block)],
             processes_rolling |-> CountIf(block, LAMBDA t : t.tx_type = Some("Process")),
             modules_rolling |-> CountIf(block, LAMBDA t : t.tx_type = Some("Module"))])

\* finalize_block_stats, once the timestamp is known
finalize_block_stats(st, ts, last) ==
    [st EXCEPT !.timestamp = ts,
               !.tx_count_rolling = BigAdd(last.tx_count_rolling, st.tx_count),
               !.processes_rolling = last.processes_rolling + st.new_process_count,
               !.modules_rolling = last.modules_rolling + st.new_module_count]

\* an empty block's statistics that start the rolling counters anew
empty_block_stats_reset(h, ts, last) ==
    [height |-> h, timestamp |-> ts, tx_count |-> 0, eval_count |-> 0,
     transfer_count |-> 0, new_process_count |-> 0, new_module_count |-> 0,
     active_users |-> 0, active_processes |-> 0,
     tx_count_rolling |-> [hi |-> 0, lo |-> 0],
     processes_rolling |-> 0,
     modules_rolling |-> 0]

empty_block_stats(h, ts, last) ==
    [height |-> h, timestamp |-> ts, tx_count |-> 0, eval_count |-> 0,
     transfer_count |-> 0, new_process_count |-> 0, new_module_count |-> 0,
     active_users |-> 0, active_processes |-> 0,
     tx_count_rolling |-> last.tx_count_rolling,
     processes_rolling |-> last.processes_rolling,
     modules_rolling |-> last.modules_rolling]

\* AtlasExplorerRow::from_block_stats: from_timestamp_millis(timestamp * 1000) is
\* None only beyond the chrono range (about 8.2 * 10^12 s), above every u32 timestamp
AtlasExplorerRow_from_block_stats(st) == Some(st)

\* a ReplacingMergeTree table ordered by height: a new row replaces the row of its height
InsertByHeight(table, rows) ==
    {r \in table : \A n \in rows : n.height # r.height} \cup rows

\* a latest_explorer_stats that orders by height ascending
latest_explorer_stats_asc(table) ==
    IF table = {} THEN None
    ELSE Some(CHOOSE r \in table : \A o \in table : o.height >= r.height)

\* Clickhouse::latest_explorer_stats: order by height desc limit 1
latest_explorer_stats(table) ==
    IF table = {} THEN None
    ELSE Some(CHOOSE r \in table : \A o \in table : o.height <= r.height)

NoStats == empty_block_stats(0, 0, LATEST_AGG_STATS_SET)

InitStatsAtLast(last) ==
    [pc |-> "tip", height |-> last.height, tip |-> 0, last |-> last,
     all |-> <<>>, cursor |-> None, cur |-> NoStats, lastCall |-> "none", lastErr |-> <<>>]

\* run_stats_indexer_from(last, handler) at its first statement
InitStats(last) ==
    [pc |-> "tip", height |-> last.height + 1, tip |-> 0, last |-> last,
     all |-> <<>>, cursor |-> None, cur |-> NoStats, lastCall |-> "none", lastErr |-> <<>>]

OffStats == [InitStats(LATEST_AGG_STATS_SET) EXCEPT !.pc = "off"]

\* the `?` in the stats thread: the error leaves run_stats_indexer_from
StatsFail(call, err) == [stats EXCEPT !.pc = "failed", !.lastCall = call, !.lastErr = err]

\* the loop position after a block is done: the inner while, or sleep and the tip
StatsLoopPc(height, tip) == IF height <= tip THEN "page" ELSE "tip"

\* line 203: let tip = current_network_height()?
StatsTip ==
    /\ "stats" \in active
    /\ stats.pc = "tip"
    /\ stats.height <= MaxHeight("stats")
    /\ \/ \E err \in TransportErrors \cap env.transport : stats' = StatsFail("tip", err)
       \/ \E d \in env.tips :
            stats' = [stats EXCEPT !.tip = stats.height + d,
                                   !.pc = StatsLoopPc(stats.height, stats.height + d),
                                   !.lastCall = "tip", !.lastErr = <<>>]
    /\ UNCHANGED <<procVars, env, active, worker, restarts, storeVars, atlas_explorer>>

\* build_block_stats: one page of fetch_full_block, and the aggregation after the last
StatsFetchPage ==
    /\ "stats" \in active
    /\ stats.pc = "page"
    /\ stats.height <= MaxHeight("stats")
    /\ \/ \E err \in TransportErrors \cap env.transport : stats' = StatsFail("page", err)
       \/ LET page == fetch_ao_page_with_cursor(stats.height, stats.cursor)
              all == stats.all \o page.txs
              got == [stats EXCEPT !.all = all, !.cursor = page.cursor,
                                   !.lastCall = "page", !.lastErr = <<>>]
              agg == aggregate_block(all, stats.height)
          IN  stats' =
                IF page.has_more /\ page.cursor # None THEN got
                ELSE IF agg = None THEN [got EXCEPT !.pc = "timestamp", !.cur = NoStats]
                ELSE IF Unwrap(agg).timestamp = 0
                THEN [got EXCEPT !.pc = "timestamp", !.cur = Unwrap(agg)]
                ELSE [got EXCEPT !.pc = "handler",
                                 !.cur = finalize_block_stats(Unwrap(agg),
                                                              Unwrap(agg).timestamp,
                                                              stats.last)]
    /\ UNCHANGED <<procVars, env, active, worker, restarts, storeVars, atlas_explorer>>

\* fetch_block_timestamp(height)? in finalize_block_stats or for an empty block
StatsTimestamp ==
    /\ "stats" \in active
    /\ stats.pc = "timestamp"
    /\ \/ \E err \in TransportErrors \cap env.transport :
            stats' = StatsFail("timestamp", err)
       \/ LET ts == BlockTimestamp(stats.height)
          IN  stats' = [stats EXCEPT
                            !.pc = "handler",
                            !.cur = IF stats.all = <<>>
                                    THEN empty_block_stats(stats.height, ts, stats.last)
                                    ELSE finalize_block_stats(stats.cur, ts, stats.last),
                            !.lastCall = "timestamp", !.lastErr = <<>>]
    /\ UNCHANGED <<procVars, env, active, worker, restarts, storeVars, atlas_explorer>>

\* handler(&stats)?; last = stats; height += 1
StatsHandler ==
    /\ "stats" \in active
    /\ stats.pc = "handler"
    /\ LET row == AtlasExplorerRow_from_block_stats(stats.cur)
       IN  \E ins \in IF row = None THEN {<<>>} ELSE StoreOutcomes :
            /\ atlas_explorer' = IF ins = <<>> /\ row # None
                                 THEN InsertByHeight(atlas_explorer, {Unwrap(row)})
                                 ELSE atlas_explorer
            /\ stats' = IF AfterStore(ins, "ok") = "ok"
                        THEN [stats EXCEPT !.last = stats.cur,
                                           !.height = stats.height + 1,
                                           !.all = <<>>, !.cursor = None, !.cur = NoStats,
                                           !.pc = StatsLoopPc(stats.height + 1, stats.tip)]
                        ELSE [stats EXCEPT !.pc = "failed"]
    /\ UNCHANGED <<procVars, env, active, worker, restarts, storeVars>>

(***************************************************************************)
(* The derived explorer table of the protocol streams:                     *)
(* fetch_mainnet_block_metrics, rebuild_mainnet_explorer and               *)
(* run_mainnet_explorer_tail.  Block timestamps and owners are not part of *)
(* the modelled message rows, so ts and active_users are left out.         *)
(***************************************************************************)
\* the page size both the rebuild and the tail pass to fetch_mainnet_block_metrics
EXPLORER_PAGE_LIMIT == 512

\* the join condition of a tag row t and a message row m of the protocol streams
SameMainnetKey(t, m) ==
    /\ m.protocol = t.protocol
    /\ m.block_height = t.block_height
    /\ m.msg_id = t.msg_id

RECURSIVE SortedSeq(_)
SortedSeq(S) ==
    IF S = {} THEN <<>>
    ELSE LET m == CHOOSE x \in S : \A y \in S : x <= y
         IN  <<m>> \o SortedSeq(S \ {m})

\* the rows of `m left join t on protocol, block_height, msg_id` at height h:
\* a message without tags joins one row of default (empty) tag columns
JoinRows(messages, tags, h) ==
    LET ms == {m \in messages : m.block_height = h}
        T(m) == {t \in tags : SameMainnetKey(t, m)}
    IN  {[m |-> m, tag_key |-> t.tag_key, tag_value |-> t.tag_value] :
            <<m, t>> \in {<<m, t>> \in ms \X tags : t \in T(m)}}
        \cup {[m |-> m, tag_key |-> "", tag_value |-> ""] : m \in {m \in ms : T(m) = {}}}

CountRows(rows, key, value) ==
    Cardinality({r \in rows : Lower(r.tag_key) = key /\ Lower(r.tag_value) = value})

\* one row of the group by m.block_height
MainnetBlockMetricRow(messages, tags, h) ==
    LET rows == JoinRows(messages, tags, h)
    IN  [height |-> h,
         tx_count |-> Cardinality(rows),
         eval_count |-> CountRows(rows, "action", "eval"),
         transfer_count |-> CountRows(rows, "action", "transfer"),
         new_process_count |-> CountRows(rows, "type", "process"),
         new_module_count |-> CountRows(rows, "type", "module"),
         active_processes |->
            Cardinality({r.tag_value :
                r \in {x \in rows : Lower(x.tag_key) \in
                        {"from-process", "process", "from-process-id", "process-id"}}})]

\* Clickhouse::fetch_mainnet_block_metrics(after_height, limit)
fetch_mainnet_block_metrics(messages, tags, after_height, limit) ==
    LET hs == SortedSeq({m.block_height : m \in {x \in messages :
                                                    x.block_height > after_height}})
        n == IF Len(hs) < limit THEN Len(hs) ELSE limit
    IN  [i \in 1..n |-> MainnetBlockMetricRow(messages, tags, hs[i])]

ExplorerFoldFlat(metrics, acc) ==
    IF metrics = <<>> THEN acc
    ELSE [last_height |-> metrics[Len(metrics)].height,
          tx_roll |-> BigAdd(acc.tx_roll, metrics[Len(metrics)].tx_count),
          proc_roll |-> acc.proc_roll + metrics[Len(metrics)].new_process_count,
          mod_roll |-> acc.mod_roll + metrics[Len(metrics)].new_module_count,
          rows |-> acc.rows \cup
            {[height |-> m.height, tx_count |-> m.tx_count,
              eval_count |-> m.eval_count, transfer_count |-> m.transfer_count,
              new_process_count |-> m.new_process_count,
              new_module_count |-> m.new_module_count,
              active_processes |-> m.active_processes,
              tx_count_rolling |-> BigAdd(acc.tx_roll, m.tx_count),
              processes_rolling |-> acc.proc_roll + m.new_process_count,
              modules_rolling |-> acc.mod_roll + m.new_module_count] :
                m \in {metrics[i] : i \in DOMAIN metrics}}]

\* the loop body shared by the rebuild and the tail: fold the metrics into explorer
\* rows, carrying last_height and the three rolling counters
RECURSIVE ExplorerFold(_, _)
ExplorerFold(metrics, acc) ==
    IF metrics = <<>> THEN acc
    ELSE LET m == Head(metrics)
             tx == BigAdd(acc.tx_roll, m.tx_count)
             pr == acc.proc_roll + m.new_process_count
             mo == acc.mod_roll + m.new_module_count
             row == [height |-> m.height, tx_count |-> m.tx_count,
                     eval_count |-> m.eval_count, transfer_count |-> m.transfer_count,
                     new_process_count |-> m.new_process_count,
                     new_module_count |-> m.new_module_count,
                     active_processes |-> m.active_processes,
                     tx_count_rolling |-> tx, processes_rolling |-> pr,
                     modules_rolling |-> mo]
         IN  ExplorerFold(Tail(metrics),
                          [last_height |-> m.height, tx_roll |-> tx, proc_roll |-> pr,
                           mod_roll |-> mo, rows |-> acc.rows \cup {row}])

\* Clickhouse::latest_mainnet_explorer_row: order by height desc limit 1
latest_mainnet_explorer_row(table) ==
    IF table = {} THEN None
    ELSE Some(CHOOSE r \in table : \A o \in table : o.height <= r.height)

ExplorerLocalsSeeded ==
    [last_height |-> 0, tx_roll |-> [hi |-> 2771, lo |-> 411066],
     proc_roll |-> 540463, mod_roll |-> 10157, rows |-> {}]

\* rebuild_mainnet_explorer lines 179-182: the locals before the loop
ExplorerLocals ==
    [last_height |-> 0, tx_roll |-> [hi |-> 0, lo |-> 0], proc_roll |-> 0,
     mod_roll |-> 0, rows |-> {}]

TailLocalsZeroRoll(last_row) ==
    IF last_row = None THEN ExplorerLocals
    ELSE [ExplorerLocals EXCEPT !.last_height = Unwrap(last_row).height]

\* run_mainnet_explorer_tail lines 772-776: the locals seeded from the latest row
TailLocals(last_row) ==
    IF last_row = None THEN ExplorerLocals
    ELSE [last_height |-> Unwrap(last_row).height,
          tx_roll |-> Unwrap(last_row).tx_count_rolling,
          proc_roll |-> Unwrap(last_row).processes_rolling,
          mod_roll |-> Unwrap(last_row).modules_rolling,
          rows |-> {}]

OffRun == [pc |-> "none", cause |-> "", loc |-> ExplorerLocals]

OffTail == [pc |-> "off", loc |-> ExplorerLocals]

NoHistory ==
    /\ explorer_before = {}
    /\ raw_before = <<{}, {}>>

(***************************************************************************)
(* Indexer::run, the supervisor task: ensure the schema, start the stats   *)
(* thread, spawn the stream workers, rebuild the explorer table, spawn the *)
(* tail, then run the snapshot cycle on every tick.  Each `?` returns the  *)
(* error from run.                                                         *)
(***************************************************************************)
\* run returned Err at the step named by cause
RunExit(cause) == [run EXCEPT !.pc = "exit", !.cause = cause]

\* line 65: self.clickhouse.ensure().await?
RunEnsure ==
    /\ run.pc = "ensure"
    /\ \E res \in StoreOutcomes :
        run' = IF AfterStore(res, "ok") = "ok" THEN [run EXCEPT !.pc = "bridge"]
               ELSE RunExit("ensure")
    /\ UNCHANGED <<env, active, worker, restarts, storeVars, statsVars, tail,
                   mainnet_explorer, explorer_before, raw_before, snapVars>>

\* line 67, spawn_explorer_bridge: read the latest stats row, start the stats thread
RunSpawnExplorerBridge ==
    /\ run.pc = "bridge"
    /\ \E res \in StoreOutcomes :
        IF AfterStore(res, "ok") = "ok"
        THEN /\ run' = [run EXCEPT !.pc = "spawn_mainnet"]
             /\ stats' = InitStats(unwrap_or(latest_explorer_stats(atlas_explorer),
                                             LATEST_AGG_STATS_SET))
        ELSE /\ run' = RunExit("bridge")
             /\ UNCHANGED stats
    /\ UNCHANGED <<env, active, worker, restarts, storeVars, atlas_explorer, tail,
                   mainnet_explorer, explorer_before, raw_before, snapVars>>

\* line 68, spawn_mainnet_indexer: one task per protocol variant
RunSpawnMainnet ==
    /\ run.pc = "spawn_mainnet"
    /\ run' = [run EXCEPT !.pc = "spawn_tokens"]
    /\ worker' = [s \in Streams |-> IF s \in MainnetStreams THEN InitWorker(s)
                                    ELSE worker[s]]
    /\ UNCHANGED <<env, active, restarts, storeVars, statsVars, tail,
                   mainnet_explorer, explorer_before, raw_before, snapVars>>

\* line 69, spawn_ao_token_indexer: one task per token
RunSpawnTokens ==
    /\ run.pc = "spawn_tokens"
    /\ run' = [run EXCEPT !.pc = "rebuild"]
    /\ worker' = [s \in Streams |-> IF s \in TokenStreams THEN InitWorker(s)
                                    ELSE worker[s]]
    /\ UNCHANGED <<env, active, restarts, storeVars, statsVars, tail,
                   mainnet_explorer, explorer_before, raw_before, snapVars>>

\* rebuild_mainnet_explorer lines 177-182: truncate, zero the locals
RebuildTruncate ==
    /\ run.pc = "rebuild"
    /\ \E res \in StoreOutcomes :
        IF AfterStore(res, "ok") = "ok"
        THEN /\ run' = [run EXCEPT !.pc = "rebuild_fetch", !.loc = ExplorerLocals]
             /\ mainnet_explorer' = {}
        ELSE /\ run' = RunExit("rebuild")
             /\ UNCHANGED mainnet_explorer
    /\ UNCHANGED <<env, active, worker, restarts, storeVars, statsVars, tail,
                   explorer_before, raw_before, snapVars>>

\* rebuild_mainnet_explorer lines 183-207: one page of metrics, folded into rows
RebuildFetch ==
    /\ run.pc = "rebuild_fetch"
    /\ \E res \in StoreOutcomes :
        run' = IF AfterStore(res, "ok") # "ok" THEN RunExit("rebuild")
               ELSE LET metrics == fetch_mainnet_block_metrics(
                                        mainnet_messages, mainnet_message_tags,
                                        run.loc.last_height, EXPLORER_PAGE_LIMIT)
                    IN  IF metrics = <<>> THEN [run EXCEPT !.pc = "spawn_tail"]
                        ELSE [run EXCEPT !.pc = "rebuild_insert",
                                         !.loc = ExplorerFold(metrics,
                                                              [run.loc EXCEPT !.rows = {}])]
    /\ UNCHANGED <<env, active, worker, restarts, storeVars, statsVars, tail,
                   mainnet_explorer, explorer_before, raw_before, snapVars>>

\* rebuild_mainnet_explorer line 208: insert_mainnet_explorer_rows(&rows).await?
RebuildInsert ==
    /\ run.pc = "rebuild_insert"
    /\ \E ins \in InsertOutcomes(run.loc.rows) :
        IF AfterStore(ins, "ok") = "ok"
        THEN /\ run' = [run EXCEPT !.pc = "rebuild_fetch"]
             /\ mainnet_explorer' = InsertByHeight(mainnet_explorer, run.loc.rows)
        ELSE /\ run' = RunExit("rebuild")
             /\ UNCHANGED mainnet_explorer
    /\ UNCHANGED <<env, active, worker, restarts, storeVars, statsVars, tail,
                   explorer_before, raw_before, snapVars>>

\* line 71, spawn_mainnet_explorer_tail
RunSpawnTail ==
    /\ run.pc = "spawn_tail"
    /\ run' = [run EXCEPT !.pc = "run_once"]
    /\ tail' = [pc |-> "seed", loc |-> ExplorerLocals]
    /\ UNCHANGED <<env, active, worker, restarts, storeVars, statsVars,
                   mainnet_explorer, explorer_before, raw_before, snapVars>>

\* lines 74-76 and 82-84: a snapshot cycle; run_once logs its errors and returns Ok
RunOnce ==
    /\ run.pc = "run_once"
    /\ cycle.pc = "return"
    /\ run' = [run EXCEPT !.pc = "tick"]
    /\ cycle' = [cycle EXCEPT !.pc = "idle", !.i = 1]
    /\ UNCHANGED <<env, active, worker, restarts, storeVars, statsVars, tail,
                   mainnet_explorer, explorer_before, raw_before, oracle_snapshots,
                   wallet_balances, wallet_delegations, flp_positions,
                   delegation_mappings, deleg>>

\* lines 78-81: interval.tick().await
RunTick ==
    /\ run.pc = "tick"
    /\ run' = [run EXCEPT !.pc = "run_once"]
    /\ UNCHANGED <<env, active, worker, restarts, storeVars, statsVars, tail,
                   mainnet_explorer, explorer_before, raw_before, snapVars>>

(***************************************************************************)
(* run_mainnet_explorer_tail                                               *)
(***************************************************************************)
\* lines 772-776: seed the locals from the latest explorer row
TailSeed ==
    /\ tail.pc = "seed"
    /\ \E res \in StoreOutcomes :
        tail' = IF AfterStore(res, "ok") # "ok" THEN [tail EXCEPT !.pc = "failed"]
                ELSE [pc |-> "fetch",
                      loc |-> TailLocals(latest_mainnet_explorer_row(mainnet_explorer))]
    /\ UNCHANGED <<env, active, worker, restarts, storeVars, statsVars, run,
                   mainnet_explorer, explorer_before, raw_before, snapVars>>

\* lines 778-805: one page of metrics above last_height; none: sleep and poll again
TailFetch ==
    /\ tail.pc = "fetch"
    /\ \E res \in StoreOutcomes :
        tail' = IF AfterStore(res, "ok") # "ok" THEN [tail EXCEPT !.pc = "failed"]
                ELSE LET metrics == fetch_mainnet_block_metrics(
                                        mainnet_messages, mainnet_message_tags,
                                        tail.loc.last_height, EXPLORER_PAGE_LIMIT)
                     IN  IF metrics = <<>> THEN tail
                         ELSE [pc |-> "insert",
                               loc |-> ExplorerFold(metrics,
                                                    [tail.loc EXCEPT !.rows = {}])]
    /\ UNCHANGED <<env, active, worker, restarts, storeVars, statsVars, run,
                   mainnet_explorer, explorer_before, raw_before, snapVars>>

\* line 806: insert_mainnet_explorer_rows(&rows).await?
TailInsert ==
    /\ tail.pc = "insert"
    /\ \E ins \in InsertOutcomes(tail.loc.rows) :
        IF AfterStore(ins, "ok") = "ok"
        THEN /\ tail' = [tail EXCEPT !.pc = "fetch"]
             /\ mainnet_explorer' = InsertByHeight(mainnet_explorer, tail.loc.rows)
        ELSE /\ tail' = [tail EXCEPT !.pc = "failed"]
             /\ UNCHANGED mainnet_explorer
    /\ UNCHANGED <<env, active, worker, restarts, storeVars, statsVars, run,
                   explorer_before, raw_before, snapVars>>

(***************************************************************************)
(* The snapshot cycle (run_once): delegation mappings, then index_ticker   *)
(* for every configured ticker.  Amounts are rust_decimal values, kept as  *)
(* a mantissa m and a scale e (the value is m / 10^e); a normalised value  *)
(* with its to_string() is one and the same record.                        *)
(***************************************************************************)
MAX_FACTOR == 10000

\* FLP process ids (common/projects.rs)
PI_PID == "4hXj_E-5fAKmo4E8KjgQvuDJKAFk9P2grhycVmISDLs"
LOAD_PID == "Qz3n2P-EiWNoWsvk7gKLtrV9ChvSXQ5HJPgPklWEgQ0"
APUS_PID == "jHZBsy0SalZ6I5BmYKRUt0AtLsn-FCFhqf_n6AgwGlc"

\* the sentinel of "no Set-Delegation message": the PI project
INTERNAL_PI_PID == PI_PID

\* a project test that accepts every process id
is_flp_project_any(pid) == TRUE

\* Project::is_flp_project, over the ids the model's payloads use
is_flp_project(pid) == pid \in {PI_PID, LOAD_PID, APUS_PID}

Decimal(m, e) == [m |-> m, e |-> e]

Decimal_ZERO == Decimal(0, 0)

\* Decimal::normalize: strip trailing zeros of the fraction; zero is 0
RECURSIVE Decimal_normalize(_)
Decimal_normalize(d) ==
    IF d.m = 0 THEN Decimal_ZERO
    ELSE IF d.e > 0 /\ d.m % 10 = 0 THEN Decimal_normalize(Decimal(d.m \div 10, d.e - 1))
    ELSE d

Decimal_is_zero(d) == d.m = 0

RECURSIVE Pow10(_)
Pow10(n) == IF n = 0 THEN 1 ELSE 10 * Pow10(n - 1)

\* an amount string of the oracle payload: the digits of m followed by z zeros, or text
\* that is no number
AmountStr(m, z) == [ok |-> TRUE, m |-> m, z |-> z]

BadAmount == [ok |-> FALSE, m |-> 0, z |-> 0]

\* ticker_scale: 10^18 for the three oracle tickers (the exponent), else 1
ticker_scale(ticker) == IF ticker \in {"usds", "dai", "steth"} THEN 18 ELSE 0

\* normalize_amount: Decimal::from_str(amount).ok()? / ticker_scale, normalised
normalize_amount(amount, ticker) ==
    IF ~amount.ok THEN None
    ELSE LET k == ticker_scale(ticker)
         IN  Some(IF amount.z >= k
                  THEN Decimal_normalize(Decimal(amount.m * Pow10(amount.z - k), 0))
                  ELSE Decimal_normalize(Decimal(amount.m, k - amount.z)))

\* delegated_amount: amount * factor / MAX_FACTOR, normalised
delegated_amount(amount, factor) ==
    Decimal_normalize(Decimal(amount.m * factor, amount.e + 4))

(***************************************************************************)
(* flp::wallet::get_wallet_delegations and the two lookups it makes.       *)
(***************************************************************************)
WalletDelegations(wallet_to, factor) == [wallet_to |-> wallet_to, factor |-> factor]

\* a parsed preference payload
DelegationsRes(total_factor, prefs) ==
    [total_factor |-> total_factor, delegation_prefs |-> prefs,
     wallet |-> None, delegation_msg_id |-> None]

pi_default_load(address) ==
    [total_factor |-> Some(MAX_FACTOR),
     delegation_prefs |-> <<[wallet_to |-> LOAD_PID, factor |-> MAX_FACTOR]>>,
     wallet |-> Some(address), delegation_msg_id |-> Some("not found")]

\* DelegationsRes::pi_default
pi_default(address) ==
    [total_factor |-> Some(MAX_FACTOR),
     delegation_prefs |-> <<WalletDelegations(INTERNAL_PI_PID, MAX_FACTOR)>>,
     wallet |-> Some(address), delegation_msg_id |-> Some("not found")]

\* a Set-Delegation message of a wallet as the gateway shows it: its id, its block height
\* (None while pending), and what the second hop and the blob download and parse give:
\* an error or a payload
Candidate(id, height, blob) == [id |-> id, height |-> height, blob |-> blob]

\* get_user_delegation_txid, download_tx_data and serde_json::from_slice ended with `err`
BlobErr(err) == [err |-> err, res |-> DelegationsRes(None, <<>>)]

\* the three calls succeeded and gave the payload res
Blob(res) == [err |-> "", res |-> res]

LookupErrors == {"hop error", "download error", "parse error"}

RECURSIVE SumFactors(_)
SumFactors(prefs) ==
    IF prefs = <<>> THEN 0 ELSE Head(prefs).factor + SumFactors(Tail(prefs))

get_user_last_delegation_txid_all(edges) ==
    LET nodes == SelectSeq(edges, LAMBDA c : IsSome(c.id))
    IN  IF nodes = <<>> THEN <<Candidate(Some(INTERNAL_PI_PID), None, BlobErr(""))>>
        ELSE nodes

\* get_user_last_delegation_txid, from the parsed edges on: the ids at the maximum height
get_user_last_delegation_txid(edges) ==
    LET height(c) == unwrap_or(c.height, 0)
        nodes == SelectSeq(edges, LAMBDA c : IsSome(c.id))
        hs == {height(nodes[i]) : i \in DOMAIN nodes}
    IN  IF nodes = <<>> THEN <<Candidate(Some(INTERNAL_PI_PID), None, BlobErr(""))>>
        ELSE SelectSeq(nodes, LAMBDA c : height(c) = SetMax(hs))

\* the loop of get_wallet_delegations over the ids, carrying the fallback
RECURSIVE ResolveCandidates(_, _, _)
ResolveCandidates(address, ids, fallback) ==
    IF ids = <<>>
    THEN IF fallback = None
         THEN [ok |-> FALSE, err |-> "no delegation preferences found", res |-> None]
         ELSE [ok |-> TRUE, err |-> "", res |-> fallback]
    ELSE LET c == Head(ids)
         IN  IF Unwrap(c.id) = INTERNAL_PI_PID
             THEN [ok |-> TRUE, err |-> "", res |-> Some(pi_default(address))]
             ELSE IF c.blob.err # ""
             THEN [ok |-> FALSE, err |-> c.blob.err, res |-> None]
             ELSE LET total_factor == unwrap_or(c.blob.res.total_factor,
                                                SumFactors(c.blob.res.delegation_prefs))
                      res == [c.blob.res EXCEPT !.delegation_msg_id = c.id]
                  IN  IF total_factor >= MAX_FACTOR
                      THEN [ok |-> TRUE, err |-> "", res |-> Some(res)]
                      ELSE ResolveCandidates(address, Tail(ids), Some(res))

\* get_wallet_delegations(address); lookup is what the gateway answers for the wallet:
\* an error of the first query, or its edges
get_wallet_delegations(address, lookup) ==
    IF ~lookup.ok THEN [ok |-> FALSE, err |-> "last delegation query error", res |-> None]
    ELSE ResolveCandidates(address, get_user_last_delegation_txid(lookup.edges), None)

\* a load that answers a failed resolution with a payload without preferences
load_delegations_empty(address, lookup) ==
    LET r == get_wallet_delegations(address, lookup)
    IN  IF r.ok THEN Unwrap(r.res) ELSE DelegationsRes(None, <<>>)

\* load_delegations: any error is replaced by the PI default
load_delegations(address, lookup) ==
    LET r == get_wallet_delegations(address, lookup)
    IN  IF r.ok THEN Unwrap(r.res) ELSE pi_default(address)

\* load_ar_balance: the balance, or zero when the lookup fails
load_ar_balance(balance) == unwrap_or(balance, Decimal_ZERO)

(***************************************************************************)
(* The rows of the snapshot tables, and what index_ticker builds from the  *)
(* pairs (entry, delegation, ar_balance) of one snapshot.                  *)
(***************************************************************************)
OracleSnapshotRow(ts, ticker, tx_id) == [ts |-> ts, ticker |-> ticker, tx_id |-> tx_id]

WalletBalanceRow(ts, ticker, entry, amount, ar_balance, tx_id) ==
    [ts |-> ts, ticker |-> ticker, wallet |-> entry.ar_address, eoa |-> entry.eoa,
     amount |-> amount, ar_balance |-> ar_balance, tx_id |-> tx_id]

WalletDelegationRow(ts, entry, delegation) ==
    [ts |-> ts, wallet |-> entry.ar_address, payload |-> delegation]

FlpPositionRow(ts, ticker, entry, pref, amount, ar_amount) ==
    [ts |-> ts, ticker |-> ticker, wallet |-> entry.ar_address, eoa |-> entry.eoa,
     project |-> pref.wallet_to, factor |-> pref.factor,
     amount |-> amount, ar_amount |-> ar_amount]

\* SetBalancesData: one record of the oracle's csv payload
SetBalancesData(eoa, amount, ar_address) ==
    [eoa |-> eoa, amount |-> amount, ar_address |-> ar_address]

\* a pair of the snapshot: the entry with the delegation and the AR balance loaded for it
Pair(entry, delegation, ar_balance) ==
    [entry |-> entry, delegation |-> delegation, ar_balance |-> ar_balance]

has_oracle_absent(table, ticker, tx_id) == FALSE

\* Clickhouse::has_oracle: count() > 0 over the rows of (ticker, tx_id)
has_oracle(table, ticker, tx_id) ==
    \E i \in DOMAIN table : table[i].ticker = ticker /\ table[i].tx_id = tx_id

\* the entries of the snapshot whose amount parses (the others are skipped)
Parsed(pairs, ticker) ==
    {i \in DOMAIN pairs : IsSome(normalize_amount(pairs[i].entry.amount, ticker))}

\* the elements of a Vec of rows
Range(rows) == {rows[i] : i \in DOMAIN rows}

\* balance_rows: one row per pair whose amount parses, in the order of the pairs
BalanceRows(now, ticker, tx_id, pairs) ==
    LET kept == SelectSeq(pairs, LAMBDA p : IsSome(normalize_amount(p.entry.amount, ticker)))
    IN  [i \in DOMAIN kept |->
            WalletBalanceRow(now, ticker, kept[i].entry,
                             Unwrap(normalize_amount(kept[i].entry.amount, ticker)),
                             kept[i].ar_balance, tx_id)]

\* delegation_rows: one row per pair whose amount parses, in the order of the pairs
DelegationRows(now, ticker, pairs) ==
    LET kept == SelectSeq(pairs, LAMBDA p : IsSome(normalize_amount(p.entry.amount, ticker)))
    IN  [i \in DOMAIN kept |-> WalletDelegationRow(now, kept[i].entry, kept[i].delegation)]

\* the position rows of one pair: one per preference that names an FLP project, unless
\* both delegated amounts are zero, in the order of the preferences
PairPositionRows(now, ticker, p) ==
    LET amount_dec == Unwrap(normalize_amount(p.entry.amount, ticker))
        kept == SelectSeq(p.delegation.delegation_prefs,
                    LAMBDA pref :
                        /\ is_flp_project(pref.wallet_to)
                        /\ ~(/\ Decimal_is_zero(delegated_amount(amount_dec, pref.factor))
                             /\ Decimal_is_zero(delegated_amount(p.ar_balance, pref.factor))))
    IN  [k \in DOMAIN kept |->
            FlpPositionRow(now, ticker, p.entry, kept[k],
                           delegated_amount(amount_dec, kept[k].factor),
                           delegated_amount(p.ar_balance, kept[k].factor))]

\* position_rows: the rows of the pairs whose amount parses, in the order of the pairs
RECURSIVE PositionRows(_, _, _)
PositionRows(now, ticker, pairs) ==
    IF pairs = <<>> THEN <<>>
    ELSE (IF IsSome(normalize_amount(Head(pairs).entry.amount, ticker))
          THEN PairPositionRows(now, ticker, Head(pairs)) ELSE <<>>)
            \o PositionRows(now, ticker, Tail(pairs))

\* Clickhouse::ensure, lines 35-37: the sorting key of the tables of the snapshot
SortingKey(name, r) ==
    CASE name = "wallet_balances" -> <<r.ticker, r.wallet, r.ts>>
      [] name = "wallet_delegations" -> <<r.wallet, r.ts>>
      [] name = "flp_positions" -> <<r.project, r.wallet, r.ts>>

\* an insert into a ReplacingMergeTree table: of the rows with one sorting key the
\* table keeps the row inserted last, among the rows of one insert the last of the Vec
ReplacingInsert(name, table, rows) ==
    LET last == {i \in DOMAIN rows :
                    \A j \in DOMAIN rows :
                        j > i => SortingKey(name, rows[j]) # SortingKey(name, rows[i])}
        new == {rows[i] : i \in last}
    IN  {r \in table : \A n \in new : SortingKey(name, n) # SortingKey(name, r)} \cup new

(***************************************************************************)
(* run_once and index_ticker.  cycle.pc is the await point inside          *)
(* run_once: "idle" (before fetch_latest_mapping_page), "has_mapping",     *)
(* "build_mapping", "insert_mappings" (inside index_delegation_mappings,   *)
(* with the fetched message in cycle.meta), "ticker" (the head of the      *)
(* ticker loop), "gate", "insert_oracle", "fanout" (one step per await of  *)
(* the futures of buffer_unordered, their progress in cycle.fan),          *)
(* "insert_balances", "insert_delegations", "insert_positions" (inside     *)
(* index_ticker), "return".  cycle.now is the clock read by Utc::now(),    *)
(* cycle.feed the newest message of each oracle and cycle.faults the       *)
(* enrichment requests that have failed; they outlive the process.         *)
(***************************************************************************)
\* index_ticker calls per behaviour
MaxSnapshots == 3

Tickers == {"usds", "dai"}

\* enrichment requests (load_delegations, load_ar_balance) that fail per behaviour
MaxFaults == 1

NoTickerLocals == [now |-> 0, ticker |-> "", tx_id |-> "", balances |-> <<>>, pairs |-> <<>>]

\* str::parse::<usize> on the values of DELEGATION_CONCURRENCY the model uses
ParseUsize(w) ==
    CASE w = "0" -> Some(0)
      [] w = "1" -> Some(1)
      [] w = "2" -> Some(2)
      [] w = "3" -> Some(3)
      [] OTHER -> None

\* Config::load, lines 66-70: the variable parsed, kept if positive, 16 otherwise
Config_load_concurrency(v) ==
    LET parsed == IF v = None THEN None ELSE ParseUsize(Unwrap(v))
    IN  IF parsed # None /\ Unwrap(parsed) > 0 THEN Unwrap(parsed) ELSE 16

\* the values of the environment variable: unset, zero, not a number, and numbers
\* below, at and above the sizes of the balance sheets
ConcurrencyVars == {None, Some("0"), Some("-1"), Some("1"), Some("2"), Some("3")}

\* the futures of the fan-out over a balance sheet, none of them taken yet; of each
\* future: where it stands, the output of its load_delegations, and whether its two
\* requests failed
StartFan(n, balances) ==
    [n |-> n,
     phase |-> [k \in DOMAIN balances |-> "queued"],
     delegation |-> [k \in DOMAIN balances |-> None],
     failed |-> [k \in DOMAIN balances |-> <<FALSE, FALSE>>]]

\* a process whose DELEGATION_CONCURRENCY is not set, outside index_delegation_mappings
\* and index_ticker
OffCycle ==
    [pc |-> "idle", i |-> 1, now |-> 0, feed |-> [t \in Tickers |-> 1],
     meta |-> None, loc |-> NoTickerLocals, faults |-> 0,
     fan |-> StartFan(Config_load_concurrency(None), <<>>)]

\* index_ticker has returned: its locals are gone
LeaveTicker(c) ==
    [c EXCEPT !.meta = None, !.loc = NoTickerLocals, !.fan = StartFan(@.n, <<>>)]

\* a ticker loop that ends at the first ticker that is done or has failed
NextTickerReturn(c) == [LeaveTicker(c) EXCEPT !.pc = "return"]

\* the ticker loop of run_once goes on with the next ticker
NextTicker(c) == [LeaveTicker(c) EXCEPT !.pc = "ticker", !.i = @ + 1]

\* index_delegation_mappings has returned: run_once goes on with the first ticker
FirstTicker(c) == [LeaveTicker(c) EXCEPT !.pc = "ticker", !.i = 1]

\* a gateway call of the cycle ends Ok or, if the gateway may fail, with an error
GatewayOutcomes == IF env.flaky THEN {TRUE, FALSE} ELSE {TRUE}

\* an enrichment request ends Ok or, while the gateway has failures left, with an error
EnrichmentOutcomes ==
    IF env.flaky /\ cycle.faults < env.max_faults THEN {TRUE, FALSE} ELSE {TRUE}

\* build_mapping_rows: the rows of a delegation-mappings message
DelegationMappingRows(meta) ==
    {[height |-> meta.height, tx_id |-> meta.tx_id, wallet_from |-> r.wallet_from,
      wallet_to |-> r.wallet_to, factor |-> r.factor] : r \in meta.rows}

\* Clickhouse::has_delegation_mapping
has_delegation_mapping(table, tx_id) == \E r \in table : r.tx_id = tx_id

\* index_delegation_mappings, lines 328-331: fetch_latest_mapping_page(1).await and the
\* first mapping of the page; an error or an empty page ends the function
IndexDelegationMappings ==
    /\ run.pc = "run_once"
    /\ cycle.pc = "idle"
    /\ \E fetched \in GatewayOutcomes :
        cycle' = IF fetched /\ env.mappings # <<>>
                 THEN [cycle EXCEPT !.pc = "has_mapping", !.meta = Some(Head(env.mappings))]
                 ELSE FirstTicker(cycle)
    /\ UNCHANGED <<env, active, worker, restarts, storeVars, statsVars, run, tail,
                   mainnet_explorer, explorer_before, raw_before, oracle_snapshots,
                   wallet_balances, wallet_delegations, flp_positions,
                   delegation_mappings, deleg>>

\* lines 332-334: has_delegation_mapping(&meta.tx_id).await; an error or a stored
\* tx_id ends the function
IndexMappingsGate ==
    /\ run.pc = "run_once"
    /\ cycle.pc = "has_mapping"
    /\ \E read \in StoreOutcomes :
        cycle' = IF read = <<>>
                    /\ ~has_delegation_mapping(delegation_mappings, Unwrap(cycle.meta).tx_id)
                 THEN [cycle EXCEPT !.pc = "build_mapping"]
                 ELSE FirstTicker(cycle)
    /\ UNCHANGED <<env, active, worker, restarts, storeVars, statsVars, run, tail,
                   mainnet_explorer, explorer_before, raw_before, oracle_snapshots,
                   wallet_balances, wallet_delegations, flp_positions,
                   delegation_mappings, deleg>>

\* store_delegation_mapping, line 351: build_mapping_rows(meta).await; its error is
\* logged by index_delegation_mappings, which returns Ok
StoreMappingBuild ==
    /\ run.pc = "run_once"
    /\ cycle.pc = "build_mapping"
    /\ \E built \in GatewayOutcomes :
        cycle' = IF built THEN [cycle EXCEPT !.pc = "insert_mappings"]
                 ELSE FirstTicker(cycle)
    /\ UNCHANGED <<env, active, worker, restarts, storeVars, statsVars, run, tail,
                   mainnet_explorer, explorer_before, raw_before, oracle_snapshots,
                   wallet_balances, wallet_delegations, flp_positions,
                   delegation_mappings, deleg>>

\* store_delegation_mapping, line 352: insert_delegation_mappings(&rows).await; its
\* error is logged as well
StoreMappingInsert ==
    /\ run.pc = "run_once"
    /\ cycle.pc = "insert_mappings"
    /\ \E ins \in StoreOutcomes :
        delegation_mappings' =
            IF ins = <<>>
            THEN delegation_mappings \cup DelegationMappingRows(Unwrap(cycle.meta))
            ELSE delegation_mappings
    /\ cycle' = FirstTicker(cycle)
    /\ UNCHANGED <<env, active, worker, restarts, storeVars, statsVars, run, tail,
                   mainnet_explorer, explorer_before, raw_before, oracle_snapshots,
                   wallet_balances, wallet_delegations, flp_positions, deleg>>

\* the head of `for ticker in &self.config.tickers`, and index_ticker up to load_balances
IndexTickerLoad ==
    /\ run.pc = "run_once"
    /\ cycle.pc = "ticker"
    /\ IF cycle.i > Len(env.tickers)
       THEN cycle' = [cycle EXCEPT !.pc = "return"]
       ELSE /\ cycle.now < MaxSnapshots
            /\ LET ticker == env.tickers[cycle.i]
                   now == cycle.now + 1
               IN  \E ok \in GatewayOutcomes :
                    IF ~ok \/ ticker \notin DOMAIN env.oracle
                    THEN cycle' = [NextTicker(cycle) EXCEPT !.now = now]
                    ELSE \E v \in {cycle.feed[ticker], cycle.feed[ticker] + 1}
                                    \cap DOMAIN env.oracle[ticker] :
                            cycle' = [cycle EXCEPT
                                        !.pc = "gate", !.now = now, !.feed[ticker] = v,
                                        !.loc = [now |-> now, ticker |-> ticker,
                                                 tx_id |-> env.oracle[ticker][v].tx_id,
                                                 balances |-> env.oracle[ticker][v].balances,
                                                 pairs |-> <<>>]]
    /\ UNCHANGED <<env, active, worker, restarts, storeVars, statsVars, run, tail,
                   mainnet_explorer, explorer_before, raw_before, oracle_snapshots,
                   wallet_balances, wallet_delegations, flp_positions,
                   delegation_mappings, deleg>>

\* index_ticker lines 243-246: the has_oracle gate
IndexTickerGate ==
    /\ run.pc = "run_once"
    /\ cycle.pc = "gate"
    /\ \E read \in StoreOutcomes :
        cycle' = IF read = <<>>
                    /\ ~has_oracle(oracle_snapshots, cycle.loc.ticker, cycle.loc.tx_id)
                 THEN [cycle EXCEPT !.pc = "insert_oracle"]
                 ELSE NextTicker(cycle)
    /\ UNCHANGED <<env, active, worker, restarts, storeVars, statsVars, run, tail,
                   mainnet_explorer, explorer_before, raw_before, oracle_snapshots,
                   wallet_balances, wallet_delegations, flp_positions,
                   delegation_mappings, deleg>>

\* lines 249-255: insert_oracles; then the stream of futures of lines 257-264 is built
IndexTickerInsertOracle ==
    /\ run.pc = "run_once"
    /\ cycle.pc = "insert_oracle"
    /\ \E ins \in StoreOutcomes :
        IF ins = <<>>
        THEN /\ oracle_snapshots' =
                    Append(oracle_snapshots,
                           OracleSnapshotRow(cycle.loc.now, cycle.loc.ticker, cycle.loc.tx_id))
             /\ cycle' = [cycle EXCEPT
                            !.pc = IF cycle.loc.balances = <<>> THEN "insert_balances"
                                   ELSE "fanout",
                            !.fan = StartFan(@.n, cycle.loc.balances)]
        ELSE /\ UNCHANGED oracle_snapshots
             /\ cycle' = NextTicker(cycle)
    /\ UNCHANGED <<env, active, worker, restarts, storeVars, statsVars, run, tail,
                   mainnet_explorer, explorer_before, raw_before,
                   wallet_balances, wallet_delegations, flp_positions,
                   delegation_mappings, deleg>>

\* a buffer that takes every future at once
FanHasRoomAlways(phase, n) == TRUE

\* the entries whose future is in progress
InProgress(phase) == {k \in DOMAIN phase : phase[k] \in {"delegation", "balance"}}

\* buffer_unordered(n): the next future is taken while fewer than n are in progress
FanHasRoom(phase, n) == Cardinality(InProgress(phase)) < n

Queued(phase) == {k \in DOMAIN phase : phase[k] = "queued"}

\* a future is polled once the buffer holds n futures or the iterator has ended
FanPolls(phase, n) == Queued(phase) = {} \/ ~FanHasRoom(phase, n)

\* the buffer takes the next future of the iterator, in the order of the sheet
FanoutStart ==
    /\ run.pc = "run_once"
    /\ cycle.pc = "fanout"
    /\ Queued(cycle.fan.phase) # {}
    /\ FanHasRoom(cycle.fan.phase, cycle.fan.n)
    /\ LET k == CHOOSE q \in Queued(cycle.fan.phase) :
                    \A o \in Queued(cycle.fan.phase) : q <= o
       IN  cycle' = [cycle EXCEPT !.fan.phase[k] = "delegation"]
    /\ UNCHANGED <<env, active, worker, restarts, storeVars, statsVars, run, tail,
                   mainnet_explorer, explorer_before, raw_before, oracle_snapshots,
                   wallet_balances, wallet_delegations, flp_positions,
                   delegation_mappings, deleg>>

\* line 259: load_delegations(entry.ar_address.clone()).await of one future; a failed
\* lookup gives the PI default
FanoutDelegation ==
    /\ run.pc = "run_once"
    /\ cycle.pc = "fanout"
    /\ FanPolls(cycle.fan.phase, cycle.fan.n)
    /\ \E k \in DOMAIN cycle.fan.phase, ok \in EnrichmentOutcomes :
        /\ cycle.fan.phase[k] = "delegation"
        /\ LET address == cycle.loc.balances[k].ar_address
               lookup == IF ok THEN env.wallets[address].lookup
                               ELSE [ok |-> FALSE, edges |-> <<>>]
           IN  cycle' = [cycle EXCEPT
                    !.faults = IF ok THEN @ ELSE @ + 1,
                    !.fan.phase[k] = "balance",
                    !.fan.delegation[k] = Some(load_delegations(address, lookup)),
                    !.fan.failed[k] = <<~ok, FALSE>>]
    /\ UNCHANGED <<env, active, worker, restarts, storeVars, statsVars, run, tail,
                   mainnet_explorer, explorer_before, raw_before, oracle_snapshots,
                   wallet_balances, wallet_delegations, flp_positions,
                   delegation_mappings, deleg>>

\* lines 260-261: load_ar_balance(..).await, a failed request gives zero; the future
\* completes and its output is collected; with the last output collect() returns
FanoutBalance ==
    /\ run.pc = "run_once"
    /\ cycle.pc = "fanout"
    /\ FanPolls(cycle.fan.phase, cycle.fan.n)
    /\ \E k \in DOMAIN cycle.fan.phase, ok \in EnrichmentOutcomes :
        /\ cycle.fan.phase[k] = "balance"
        /\ LET entry == cycle.loc.balances[k]
               balance == IF ok THEN env.wallets[entry.ar_address].ar ELSE None
               phase == [cycle.fan.phase EXCEPT ![k] = "done"]
           IN  cycle' = [cycle EXCEPT
                    !.pc = IF \A o \in DOMAIN phase : phase[o] = "done"
                           THEN "insert_balances" ELSE "fanout",
                    !.faults = IF ok THEN @ ELSE @ + 1,
                    !.fan.phase = phase,
                    !.fan.failed[k] = <<@[1], ~ok>>,
                    !.loc.pairs = Append(@, Pair(entry, Unwrap(cycle.fan.delegation[k]),
                                                 load_ar_balance(balance)))]
    /\ UNCHANGED <<env, active, worker, restarts, storeVars, statsVars, run, tail,
                   mainnet_explorer, explorer_before, raw_before, oracle_snapshots,
                   wallet_balances, wallet_delegations, flp_positions,
                   delegation_mappings, deleg>>

\* line 314: insert_balances
IndexTickerInsertBalances ==
    /\ run.pc = "run_once"
    /\ cycle.pc = "insert_balances"
    /\ LET rows == BalanceRows(cycle.loc.now, cycle.loc.ticker, cycle.loc.tx_id,
                               cycle.loc.pairs)
       IN  \E ins \in InsertOutcomes(Range(rows)) :
            IF ins = <<>>
            THEN /\ wallet_balances' = ReplacingInsert("wallet_balances", wallet_balances, rows)
                 /\ cycle' = [cycle EXCEPT !.pc = "insert_delegations"]
            ELSE /\ UNCHANGED wallet_balances
                 /\ cycle' = NextTicker(cycle)
    /\ UNCHANGED <<env, active, worker, restarts, storeVars, statsVars, run, tail,
                   mainnet_explorer, explorer_before, raw_before, oracle_snapshots,
                   wallet_delegations, flp_positions, delegation_mappings, deleg>>

\* line 315: insert_delegations
IndexTickerInsertDelegations ==
    /\ run.pc = "run_once"
    /\ cycle.pc = "insert_delegations"
    /\ LET rows == DelegationRows(cycle.loc.now, cycle.loc.ticker, cycle.loc.pairs)
       IN  \E ins \in InsertOutcomes(Range(rows)) :
            IF ins = <<>>
            THEN /\ wallet_delegations' =
                        ReplacingInsert("wallet_delegations", wallet_delegations, rows)
                 /\ cycle' = [cycle EXCEPT !.pc = "insert_positions"]
            ELSE /\ UNCHANGED wallet_delegations
                 /\ cycle' = NextTicker(cycle)
    /\ UNCHANGED <<env, active, worker, restarts, storeVars, statsVars, run, tail,
                   mainnet_explorer, explorer_before, raw_before, oracle_snapshots,
                   wallet_balances, flp_positions, delegation_mappings, deleg>>

\* lines 316-323: insert_positions, and the return of index_ticker
IndexTickerInsertPositions ==
    /\ run.pc = "run_once"
    /\ cycle.pc = "insert_positions"
    /\ LET rows == PositionRows(cycle.loc.now, cycle.loc.ticker, cycle.loc.pairs)
       IN  \E ins \in InsertOutcomes(Range(rows)) :
            /\ flp_positions' = IF ins = <<>>
                                THEN ReplacingInsert("flp_positions", flp_positions, rows)
                                ELSE flp_positions
            /\ cycle' = NextTicker(cycle)
    /\ UNCHANGED <<env, active, worker, restarts, storeVars, statsVars, run, tail,
                   mainnet_explorer, explorer_before, raw_before, oracle_snapshots,
                   wallet_balances, wallet_delegations, delegation_mappings, deleg>>

(***************************************************************************)
(* get_wallet_delegations applied to what the gateway may answer.          *)
(***************************************************************************)
NoDeleg == [pc |-> "off", address |-> "", lookup |-> [ok |-> FALSE, edges |-> <<>>],
            result |-> [ok |-> FALSE, err |-> "", res |-> None]]

ResolveDelegation ==
    /\ deleg.pc = "input"
    /\ deleg' = [deleg EXCEPT !.pc = "done",
                              !.result = get_wallet_delegations(deleg.address, deleg.lookup)]
    /\ UNCHANGED <<env, active, worker, restarts, storeVars, statsVars, run, tail,
                   mainnet_explorer, explorer_before, raw_before, oracle_snapshots,
                   wallet_balances, wallet_delegations, flp_positions,
                   delegation_mappings, cycle>>

(***************************************************************************)
(* The process is killed and started again: every worker loses its locals  *)
(* and resumes from the store.                                             *)
(***************************************************************************)
Restart ==
    /\ restarts < MaxRestarts
    /\ restarts' = restarts + 1
    /\ worker' = [s \in Streams |-> IF s \in active THEN InitWorker(s) ELSE OffWorker(s)]
    /\ stats' = IF "stats" \in active
                THEN InitStats(unwrap_or(latest_explorer_stats(atlas_explorer),
                                         LATEST_AGG_STATS_SET))
                ELSE OffStats
    /\ UNCHANGED <<procVars, env, active, storeVars, atlas_explorer>>

(***************************************************************************)
(* Spec: one ingestion worker, of any stream, observed on its own (the     *)
(* streams share no row: every table is keyed or filtered by the label).   *)
(***************************************************************************)
EmptyStore ==
    /\ mainnet_messages = {}
    /\ mainnet_message_tags = {}
    /\ mainnet_block_state = <<>>
    /\ ao_token_messages = {}
    /\ ao_token_message_tags = {}
    /\ ao_token_block_state = <<>>
    /\ atlas_explorer = {}
    /\ mainnet_explorer = {}
    /\ oracle_snapshots = <<>>
    /\ wallet_balances = {}
    /\ wallet_delegations = {}
    /\ flp_positions = {}
    /\ delegation_mappings = {}

\* every transport error, every store error, tips on both sides of the guard and a
\* gateway that reports a tip below the height itself
FullEnv ==
    [transport |-> GatewayFaults, store |-> StoreErrors,
     tips |-> {-(ARWEAVE_TIP_SAFE_GAP + 2), -1, 0, 1},
     tipFails |-> TRUE, blocks |-> [s \in Components |-> MaxBlocks], edgeless |-> 0]

Init ==
    /\ env = FullEnv
    /\ \E c \in Components : active = {c}
    /\ worker = [s \in Streams |-> IF s \in active THEN InitWorker(s) ELSE OffWorker(s)]
    /\ restarts = 0
    /\ EmptyStore
    /\ stats = IF "stats" \in active THEN InitStats(LATEST_AGG_STATS_SET) ELSE OffStats
    /\ run = OffRun
    /\ tail = OffTail
    /\ NoHistory
    /\ cycle = OffCycle
    /\ deleg = NoDeleg

\* the steps of the worker of stream s
WorkerOf(s) ==
        \/ MainnetResume(s)
        \/ MainnetFirstTip(s)
        \/ MainnetTipGuard(s)
        \/ MainnetFetchPage(s)
        \/ MainnetInsertEmptyState(s)
        \/ MainnetInsertMessages(s)
        \/ MainnetInsertTags(s)
        \/ MainnetAdvance(s)
        \/ TokenResume(s)
        \/ TokenFirstTip(s)
        \/ TokenTipGuard(s)
        \/ TokenFetchPage(s)
        \/ TokenInsertMessages(s)
        \/ TokenInsertTags(s)
        \/ TokenAdvance(s)

WorkerNext == \E s \in Streams : WorkerOf(s)

StatsNext ==
    \/ StatsTip
    \/ StatsFetchPage
    \/ StatsTimestamp
    \/ StatsHandler

Next == WorkerNext \/ StatsNext \/ Restart

Spec == Init /\ [][Next]_vars

(***************************************************************************)
(* The worker toggles of the configuration (config.rs): IndexerConfig, its *)
(* default, and the [indexers] table of atlas.toml applied on top of it.   *)
(***************************************************************************)
IndexerConfig_default ==
    [ao |-> TRUE, pi |-> TRUE, explorer |-> TRUE, flp |-> TRUE, mainnet |-> TRUE]

\* FileIndexersConfig of a missing file or an empty table: every field None
FileIndexersDefault ==
    [ao |-> None, pi |-> None, flp |-> None, explorer |-> None, mainnet |-> None]

\* an [indexers] table that switches every worker off
FileIndexersOff ==
    [ao |-> Some(FALSE), pi |-> Some(FALSE), flp |-> Some(FALSE),
     explorer |-> Some(FALSE), mainnet |-> Some(FALSE)]

\* IndexerConfig::apply: a field of the file that is present replaces the default
IndexerConfig_apply(self, file) ==
    [ao |-> unwrap_or(file.ao, self.ao),
     pi |-> unwrap_or(file.pi, self.pi),
     explorer |-> unwrap_or(file.explorer, self.explorer),
     flp |-> unwrap_or(file.flp, self.flp),
     mainnet |-> unwrap_or(file.mainnet, self.mainnet)]

(***************************************************************************)
(* SpecProcess: the whole process from its start.  The supervisor task,    *)
(* the explorer tail and one of the workers it spawned are scheduled; the  *)
(* gateway answers every request, the store may fail any call.             *)
(***************************************************************************)
\* heights per worker followed in the process
ProcessBlocks == 2

ProcessEnv ==
    [transport |-> {}, store |-> {<<"clickhouse", ":", "bad", "response">>},
     tips |-> {-1, 1}, tipFails |-> FALSE,
     blocks |-> [s \in Components |-> ProcessBlocks],
     flaky |-> FALSE, tickers |-> <<>>, mappings |-> <<>>,
     indexers |-> IndexerConfig_default]

BootRun == [pc |-> "ensure", cause |-> "", loc |-> ExplorerLocals]

\* Config::load picks the toggles from the file, when there is one
InitProcess ==
    /\ \E file \in {FileIndexersDefault, FileIndexersOff} :
            env = [ProcessEnv EXCEPT
                        !.indexers = IndexerConfig_apply(IndexerConfig_default, file)]
    /\ \E c \in Components : active = {c}
    /\ worker = [s \in Streams |-> OffWorker(s)]
    /\ stats = OffStats
    /\ run = BootRun
    /\ tail = OffTail
    /\ restarts = 0
    /\ EmptyStore
    /\ NoHistory
    /\ cycle = OffCycle
    /\ deleg = NoDeleg

\* the process is killed and started again: every task is gone, the store stays
ProcessRestart ==
    /\ restarts < MaxRestarts
    /\ restarts' = restarts + 1
    /\ worker' = [s \in Streams |-> OffWorker(s)]
    /\ stats' = OffStats
    /\ run' = BootRun
    /\ tail' = OffTail
    /\ explorer_before' = mainnet_explorer
    /\ raw_before' = <<mainnet_messages, mainnet_message_tags>>
    /\ cycle' = [LeaveTicker(cycle) EXCEPT !.pc = "idle", !.i = 1]
    /\ UNCHANGED <<env, active, storeVars, atlas_explorer, mainnet_explorer,
                   oracle_snapshots, wallet_balances, wallet_delegations, flp_positions,
                   delegation_mappings, deleg>>

RunNext ==
    \/ RunEnsure
    \/ RunSpawnExplorerBridge
    \/ RunSpawnMainnet
    \/ RunSpawnTokens
    \/ RebuildTruncate
    \/ RebuildFetch
    \/ RebuildInsert
    \/ RunSpawnTail
    \/ IndexDelegationMappings
    \/ IndexTickerLoad
    \/ RunOnce
    \/ RunTick

TailNext ==
    \/ TailSeed
    \/ TailFetch
    \/ TailInsert

NextProcess == RunNext \/ TailNext \/ WorkerNext \/ StatsNext \/ ProcessRestart

SpecProcess == InitProcess /\ [][NextProcess]_vars


(***************************************************************************)
(* SpecSnapshot: the snapshot cycle of a booted process, cycle after       *)
(* cycle, with a gateway and a store that may fail any call, an oracle     *)
(* whose newest message may change between two loads, and restarts.  The   *)
(* ingestion workers share no table with the cycle and are left out.       *)
(***************************************************************************)
SplitPrefs == DelegationsRes(None, <<WalletDelegations(LOAD_PID, 5000),
                                     WalletDelegations(APUS_PID, 5000)>>)

OverPrefs == DelegationsRes(None, <<WalletDelegations(LOAD_PID, 6000),
                                    WalletDelegations(APUS_PID, 6000)>>)

\* preferences that name a process that is no FLP project, and a factor of zero
StrayPrefs == DelegationsRes(None, <<WalletDelegations("not-a-project", 4000),
                                     WalletDelegations(PI_PID, 6000),
                                     WalletDelegations(APUS_PID, 0)>>)

SnapshotWallets ==
    [w \in {"w1", "w2", "w3", "w4"} |->
        CASE w = "w1" -> [lookup |-> [ok |-> TRUE,
                                      edges |-> <<Candidate(Some("t1"), Some(7),
                                                            Blob(SplitPrefs))>>],
                          ar |-> Some(Decimal(25, 1))]
          [] w = "w2" -> [lookup |-> [ok |-> TRUE, edges |-> <<>>],
                          ar |-> Some(Decimal(1, 0))]
          [] w = "w3" -> [lookup |-> [ok |-> TRUE,
                                      edges |-> <<Candidate(Some("t3"), Some(9),
                                                            Blob(OverPrefs))>>],
                          ar |-> Some(Decimal_ZERO)]
          [] w = "w4" -> [lookup |-> [ok |-> TRUE,
                                      edges |-> <<Candidate(Some("t4"), Some(9),
                                                            Blob(StrayPrefs))>>],
                          ar |-> Some(Decimal(4, 0))]]

\* the messages of the oracles; u2 lists wallet w3 under two EOAs, one of them with
\* nothing staked, and d1 lists wallet w4 under two EOAs that both have a stake
SnapshotOracle ==
    [t \in Tickers |->
        IF t = "usds"
        THEN <<[tx_id |-> "u1",
                balances |-> <<SetBalancesData("e1", AmountStr(5, 18), "w1"),
                               SetBalancesData("e2", AmountStr(0, 0), "w2")>>],
               [tx_id |-> "u2",
                balances |-> <<SetBalancesData("e2", AmountStr(2, 18), "w2"),
                               SetBalancesData("e3", AmountStr(7, 18), "w3"),
                               SetBalancesData("e6", AmountStr(0, 0), "w3")>>]>>
        ELSE <<[tx_id |-> "d1",
                balances |-> <<SetBalancesData("e4", BadAmount, "w1"),
                               SetBalancesData("e5", AmountStr(3, 18), "w4"),
                               SetBalancesData("e7", AmountStr(1, 18), "w4")>>]>>]

SnapshotEnv ==
    [transport |-> {}, store |-> {<<"clickhouse", ":", "bad", "response">>},
     tips |-> {}, tipFails |-> FALSE, blocks |-> [s \in Components |-> 0],
     flaky |-> TRUE, tickers |-> <<"usds", "dai", "usds">>,
     mappings |-> <<[tx_id |-> "m1", height |-> 1700000,
                     rows |-> {[wallet_from |-> "w1", wallet_to |-> LOAD_PID,
                                factor |-> 5000]}]>>,
     oracle |-> SnapshotOracle, wallets |-> SnapshotWallets,
     delegation_concurrency |-> Some("1"), max_faults |-> MaxFaults]

\* Config::load: the concurrency of the process
Configured(c) ==
    [c EXCEPT !.fan.n = Config_load_concurrency(env.delegation_concurrency)]

\* the supervisor has booted and is about to call run_once
BootedRun == [pc |-> "run_once", cause |-> "", loc |-> ExplorerLocals]

InitSnapshot ==
    /\ env = SnapshotEnv
    /\ active = {}
    /\ worker = [s \in Streams |-> OffWorker(s)]
    /\ stats = OffStats
    /\ run = BootedRun
    /\ tail = OffTail
    /\ restarts = 0
    /\ EmptyStore
    /\ NoHistory
    /\ cycle = Configured(OffCycle)
    /\ deleg = NoDeleg

\* the process is killed at any point of the cycle and started again
SnapshotRestart ==
    /\ restarts < MaxRestarts
    /\ restarts' = restarts + 1
    /\ run' = BootedRun
    /\ cycle' = [LeaveTicker(cycle) EXCEPT !.pc = "idle", !.i = 1]
    /\ UNCHANGED <<env, active, worker, storeVars, statsVars, tail,
                   mainnet_explorer, explorer_before, raw_before, oracle_snapshots,
                   wallet_balances, wallet_delegations, flp_positions,
                   delegation_mappings, deleg>>

CycleNext ==
    \/ IndexDelegationMappings
    \/ IndexMappingsGate
    \/ StoreMappingBuild
    \/ StoreMappingInsert
    \/ IndexTickerLoad
    \/ IndexTickerGate
    \/ IndexTickerInsertOracle
    \/ FanoutStart
    \/ FanoutDelegation
    \/ FanoutBalance
    \/ IndexTickerInsertBalances
    \/ IndexTickerInsertDelegations
    \/ IndexTickerInsertPositions
    \/ RunOnce
    \/ RunTick

NextSnapshot == CycleNext \/ SnapshotRestart

SpecSnapshot == InitSnapshot /\ [][NextSnapshot]_vars

(***************************************************************************)
(* SpecDelegation: get_wallet_delegations applied once to every answer of  *)
(* the gateway with up to MaxCandidates Set-Delegation messages, each at   *)
(* the newest height or pending, each with a failing lookup or one of six  *)
(* payloads.                                                               *)
(***************************************************************************)
MaxCandidates == 3

Payloads ==
    {DelegationsRes(Some(10000), <<WalletDelegations(LOAD_PID, 10000)>>),
     SplitPrefs,
     DelegationsRes(None, <<WalletDelegations(LOAD_PID, 3000)>>),
     DelegationsRes(Some(4000), <<WalletDelegations(APUS_PID, 4000)>>),
     OverPrefs,
     DelegationsRes(Some(10000), <<WalletDelegations(LOAD_PID, 3000)>>),
     [DelegationsRes(Some(10000), <<WalletDelegations(APUS_PID, 10000)>>)
        EXCEPT !.wallet = Some("w1")],
     [DelegationsRes(Some(10000), <<>>) EXCEPT !.wallet = Some("w2")]}

Blobs == {Blob(p) : p \in Payloads} \cup {BlobErr(e) : e \in LookupErrors}

CandidateId(i) == <<"t1", "t2", "t3", "t4", "t5">>[i]

\* the edges of the first query: n messages in gateway order, heights hs, data bs
EdgeList(n, hs, bs) == [i \in 1..n |-> Candidate(Some(CandidateId(i)), hs[i], bs[i])]

InitDelegation ==
    /\ env = FullEnv
    /\ active = {}
    /\ worker = [s \in Streams |-> OffWorker(s)]
    /\ stats = OffStats
    /\ run = OffRun
    /\ tail = OffTail
    /\ restarts = 0
    /\ EmptyStore
    /\ NoHistory
    /\ cycle = OffCycle
    /\ \E ok \in BOOLEAN, n \in 0..MaxCandidates :
        \E hs \in [1..n -> {Some(7), None}], bs \in [1..n -> Blobs] :
            /\ ~ok => n = 0
            /\ deleg = [NoDeleg EXCEPT !.pc = "input", !.address = "w1",
                                       !.lookup = [ok |-> ok, edges |-> EdgeList(n, hs, bs)]]

NextDelegation == ResolveDelegation

SpecDelegation == InitDelegation /\ [][NextDelegation]_vars

(***************************************************************************)
(* What a committed block-state row covers: the pages the worker walked at *)
(* the row's height before it wrote the row.                               *)
(***************************************************************************)
\* pages followed per height when walking a block
MaxPages == 3

\* run_mainnet_worker: the pages fetched at height h from cursor c on
RECURSIVE MainnetWalk(_, _, _, _)
MainnetWalk(s, h, c, n) ==
    LET res == scan_arweave_block_for_msgs(GatewayResponse(s, "mainnet", h, c))
    IN  IF n = 0 \/ res.err # <<>> THEN <<>>
        ELSE <<res.page>> \o (IF NextCursor(res.page) # None
                              THEN MainnetWalk(s, h, NextCursor(res.page), n - 1)
                              ELSE <<>>)

\* the pages whose rows precede the block-state row (s, h, last_cursor)
MainnetCovered(s, h, last_cursor) ==
    LET walk == MainnetWalk(s, h, None, MaxPages)
        idx == {i \in DOMAIN walk : unwrap_or_default(NextCursor(walk[i])) = last_cursor}
    IN  IF idx = {} THEN <<>>
        ELSE SubSeq(walk, 1, CHOOSE i \in idx : \A j \in idx : i <= j)

\* ingest_token_query: the pages fetched for sub-query q at height h from cursor c on
RECURSIVE TokenWalk(_, _, _, _, _)
TokenWalk(s, q, h, c, n) ==
    LET res == scan_arweave_block_for_token_msgs(q, GatewayResponse(s, q, h, c))
    IN  IF n = 0 THEN <<>>
        ELSE <<res.page>> \o (IF TokenHasMore(res.page)
                              THEN TokenWalk(s, q, h, res.page.end_cursor, n - 1)
                              ELSE <<>>)

SameTokenKey(t, m) ==
    /\ m.token = t.token
    /\ m.block_height = t.block_height
    /\ m.msg_id = t.msg_id

MainnetPageStored(s, page) ==
    /\ MainnetMessageRows(s, page) \subseteq mainnet_messages
    /\ MainnetTagRows(s, page) \subseteq mainnet_message_tags

TokenPageStored(s, q, page) ==
    /\ TokenMessageRows(s, q, page) \subseteq ao_token_messages
    /\ TokenTagRows(s, q, page) \subseteq ao_token_message_tags

\* gateway errors the retry policy names: HTTP 429, 5xx, 404, timeouts
RetryableErrors == {ErrHttp429, ErrHttp503, ErrHttp404, ErrTimeout, ErrIoTimedOut}

\* every other gateway error that is not the empty block
OtherErrors == (TransportErrors \cup {ErrNoTransactions, ErrNoTransactionsToken, ErrNoEdges})
                    \ RetryableErrors

\* a step of the worker of s from the loop top with the tip guard passed: a page fetch
FetchStep(s) ==
    /\ s \in active \cap Streams
    /\ restarts' = restarts
    /\ W(s).pc = "loop"
    /\ W(s).height + ARWEAVE_TIP_SAFE_GAP <= W(s).network_tip

(***************************************************************************)
(* C1 -- write ordering.  Every tag row in the store has a message row     *)
(* with the same (stream label, block height, message id); a block-state   *)
(* row exists only if the message rows and the tag rows of every page it   *)
(* covers were stored before it; a failed insert leaves no such row.  For  *)
(* a token worker the pages are the pages its scanner returned: each page  *)
(* passes insert_messages and then insert_tags before the next fetch or    *)
(* the block-state write, and a failed insert leads to neither.  They are  *)
(* the pages of the chain as long as the gateway has answered no body      *)
(* without edges, which the token scanner reads as a page of no message.   *)
(***************************************************************************)
\* the gateway has answered every request of the token workers with its edges
TokenAnswersWhole == env.edgeless = 0

\* a step of the token worker of s inside one run of the process
TokenStep(s) ==
    /\ s \in active \cap TokenStreams
    /\ restarts' = restarts
    /\ worker'[s] # W(s)

C1_WriteOrdering ==
    /\ [](/\ \A t \in mainnet_message_tags :
                \E m \in mainnet_messages : SameMainnetKey(t, m)
          /\ \A t \in ao_token_message_tags :
                \E m \in ao_token_messages : SameTokenKey(t, m)
          /\ \A s \in MainnetStreams :
                W(s).pc = "advance" => MainnetPageStored(s, W(s).page)
          /\ \A i \in DOMAIN mainnet_block_state :
                LET r == mainnet_block_state[i]
                    pages == MainnetCovered(r.protocol, r.last_complete_height,
                                            r.last_cursor)
                IN  \A k \in DOMAIN pages : MainnetPageStored(r.protocol, pages[k])
          /\ TokenAnswersWhole =>
                \A i \in DOMAIN ao_token_block_state :
                    LET r == ao_token_block_state[i]
                    IN  \A q \in {"transfer", "process"} :
                            LET pages == TokenWalk(r.token, q, r.last_complete_height,
                                                   None, MaxPages)
                            IN  \A k \in DOMAIN pages :
                                    TokenPageStored(r.token, q, pages[k]))
    /\ [][/\ ao_token_messages \subseteq ao_token_messages'
          /\ ao_token_message_tags \subseteq ao_token_message_tags'
          /\ ao_token_block_state' # ao_token_block_state =>
                \E s \in active \cap TokenStreams :
                    /\ W(s).pc = "advance"
                    /\ ao_token_block_state' =
                            Append(ao_token_block_state,
                                   AoTokenBlockStateRow(s, W(s).height))
          /\ \A s \in TokenStreams :
                TokenStep(s) =>
                    /\ worker'[s].pc = "insert_messages" => W(s).pc \in {"loop", "ingest"}
                    /\ worker'[s].pc = "insert_tags" =>
                            /\ W(s).pc = "insert_messages"
                            /\ worker'[s].page = W(s).page
                            /\ TokenMessageRows(s, W(s).query, W(s).page)
                                    \subseteq ao_token_messages'
                    /\ W(s).pc = "insert_messages" /\ worker'[s].pc # "insert_tags" =>
                            /\ worker'[s].pc \in {"loop", "failed"}
                            /\ worker'[s].height = W(s).height
                            /\ UNCHANGED <<ao_token_messages, ao_token_message_tags,
                                           ao_token_block_state>>
                    /\ W(s).pc = "insert_tags" =>
                            \/ /\ worker'[s].pc \in {"ingest", "advance"}
                               /\ TokenPageStored(s, W(s).query, W(s).page)'
                            \/ /\ worker'[s].pc \in {"loop", "failed"}
                               /\ worker'[s].height = W(s).height
                               /\ UNCHANGED <<ao_token_messages, ao_token_message_tags,
                                              ao_token_block_state>>
                    /\ worker'[s].pc = "advance" => W(s).pc = "insert_tags"]_vars

\* a cursor row of a page with tagged messages has been committed
C1_Witness ==
    \E i \in DOMAIN mainnet_block_state :
        /\ mainnet_block_state[i].last_cursor # ""
        /\ \E t \in mainnet_message_tags :
            /\ t.protocol = mainnet_block_state[i].protocol
            /\ t.block_height = mainnet_block_state[i].last_complete_height

(***************************************************************************)
(* C2 -- tip safety.  Every page request a worker issues is for a height   *)
(* h with h + ARWEAVE_TIP_SAFE_GAP <= the tip the worker held when it      *)
(* issued the request (h = tip - 3 is admitted).  While h + 3 > tip the    *)
(* worker only refreshes the tip: it writes nothing and keeps its height   *)
(* and cursor, and a failed refresh leaves the previous tip in force.      *)
(***************************************************************************)
C2_TipSafety ==
    /\ [](\A s \in Streams :
            W(s).lastReq # NoReq =>
                W(s).lastReq.height + ARWEAVE_TIP_SAFE_GAP <= W(s).lastReq.tip)
    /\ [][\A s \in active \cap Streams :
            (/\ W(s).pc = "loop"
             /\ W(s).height + ARWEAVE_TIP_SAFE_GAP > W(s).network_tip
             /\ restarts' = restarts)
            => /\ UNCHANGED storeVars
               /\ worker'[s].pc = "loop"
               /\ worker'[s].height = W(s).height
               /\ worker'[s].cursor = W(s).cursor
               /\ worker'[s].lastReq = W(s).lastReq
               /\ (~worker'[s].tipOk => worker'[s].network_tip = W(s).network_tip)]_vars

\* a page beyond the first height was requested at exactly tip - 3
C2_Witness ==
    \E s \in Streams :
        /\ W(s).lastReq # NoReq
        /\ W(s).lastReq.height + ARWEAVE_TIP_SAFE_GAP = W(s).lastReq.tip
        /\ W(s).lastReq.height > StartHeight(s)

(***************************************************************************)
(* C3 -- a block-state row of a protocol stream with a non-empty           *)
(* last_cursor at height h implies a stored message row of that stream at  *)
(* height h.                                                               *)
(***************************************************************************)
C3_CursorImpliesMessage ==
    \A i \in DOMAIN mainnet_block_state :
        LET r == mainnet_block_state[i]
        IN  r.last_cursor # "" =>
                \E m \in mainnet_messages :
                    /\ m.protocol = r.protocol
                    /\ m.block_height = r.last_complete_height

\* a row with a non-empty cursor is in the table, and the worker resumed from it
C3_Witness ==
    /\ restarts > 0
    /\ \E s \in MainnetStreams :
        /\ W(s).pc = "loop"
        /\ W(s).cursor # None
        /\ \E i \in DOMAIN mainnet_block_state :
            /\ mainnet_block_state[i].protocol = s
            /\ mainnet_block_state[i].last_cursor # ""

(***************************************************************************)
(* C4 -- once a block-state row (h, cursor = "") of a protocol stream is   *)
(* committed, the worker of that stream inserts no message row with a      *)
(* block height below h, in the same run and after a restart.              *)
(***************************************************************************)
\* the heights committed with an empty cursor for stream s
CommittedHeights(s) ==
    {mainnet_block_state[i].last_complete_height :
        i \in {j \in DOMAIN mainnet_block_state :
                /\ mainnet_block_state[j].protocol = s
                /\ mainnet_block_state[j].last_cursor = ""}}

\* the message rows the worker of s is about to insert
PendingMessageRows(s) ==
    IF W(s).pc # "insert_messages" THEN {}
    ELSE MainnetMessageRows(s, W(s).page)

C4_NoWriteBelowCommitted ==
    \A s \in active \cap MainnetStreams :
        \A m \in PendingMessageRows(s) :
            \A h \in CommittedHeights(s) : ~(m.block_height < h)

\* after a restart, with a committed height in the store, the worker inserts messages
C4_Witness ==
    /\ restarts > 0
    /\ \E s \in active \cap MainnetStreams :
        /\ PendingMessageRows(s) # {}
        /\ CommittedHeights(s) # {}

(***************************************************************************)
(* C5 -- empty block.  When a page fetch of a protocol worker at (h, c)    *)
(* ends with the empty-block error, the step writes nothing and clears the *)
(* cursor; the block-state insert that follows, when it succeeds, appends  *)
(* exactly the row (h, "") to the block state, writes no message and no    *)
(* tag row and moves the worker to h + 1; the next page request is for     *)
(* (h + 1, no cursor).                                                     *)
(***************************************************************************)
\* the step of the worker of s that writes the block state of an empty block
EmptyStateStep(s) ==
    /\ s \in active \cap MainnetStreams
    /\ restarts' = restarts
    /\ W(s).pc = "insert_empty_state"
    /\ worker'[s].pc # "insert_empty_state"

C5_EmptyBlock ==
    /\ [][\A s \in MainnetStreams :
            (/\ FetchStep(s)
             /\ worker'[s].lastErr = ErrEmptyBlock)
            => /\ UNCHANGED <<mainnet_messages, mainnet_message_tags, mainnet_block_state>>
               /\ worker'[s].pc = "insert_empty_state"
               /\ worker'[s].cursor = None
               /\ worker'[s].height = W(s).height]_vars
    /\ [][\A s \in MainnetStreams :
            (/\ EmptyStateStep(s)
             /\ worker'[s].pc # "failed")
            => /\ W(s).lastErr = ErrEmptyBlock
               /\ W(s).lastReq.height = W(s).height
               /\ mainnet_block_state' =
                    Append(mainnet_block_state,
                           [protocol |-> s, last_complete_height |-> W(s).height,
                            last_cursor |-> ""])
               /\ UNCHANGED <<mainnet_messages, mainnet_message_tags>>
               /\ worker'[s].pc = "loop"
               /\ worker'[s].cursor = None
               /\ worker'[s].height = W(s).height + 1]_vars
    /\ [][\A s \in MainnetStreams :
            (/\ FetchStep(s)
             /\ W(s).lastErr = ErrEmptyBlock
             /\ worker'[s].lastReq # W(s).lastReq)
            => /\ worker'[s].lastReq.height = W(s).lastReq.height + 1
               /\ worker'[s].lastReq.cursor = None]_vars

\* an empty block was committed and the worker went on to request the next height
C5_Witness ==
    \E s \in MainnetStreams :
        /\ W(s).lastReq.height > StartHeight(s)
        /\ \E i \in DOMAIN mainnet_block_state :
            /\ mainnet_block_state[i].protocol = s
            /\ mainnet_block_state[i].last_cursor = ""
            /\ mainnet_block_state[i].last_complete_height + 1 = W(s).lastReq.height
            /\ MainnetWalk(s, mainnet_block_state[i].last_complete_height, None, MaxPages)
                    = <<>>

(***************************************************************************)
(* C7 -- retry (amended).  After a page fetch failed with HTTP 429, 5xx,   *)
(* 404 or a timeout the worker has written nothing and is back at the top  *)
(* of its loop at the same height.  A protocol worker keeps its cursor:    *)
(* its next request is the same (height, cursor).  A token worker has      *)
(* dropped its cursor: its next request is the first page of the transfer  *)
(* sub-query at the same height.                                           *)
(***************************************************************************)
\* what the worker of s requests next after the failed request
RetryTarget(s, w) ==
    /\ w.height = W(s).lastReq.height
    /\ s \in MainnetStreams => w.cursor = W(s).lastReq.cursor
    /\ s \in TokenStreams => (w.cursor = None /\ w.query = "transfer")

C7_RetrySameHeight ==
    /\ [](\A s \in active \cap Streams :
            W(s).lastErr \in RetryableErrors
                => (W(s).pc = "loop" /\ RetryTarget(s, W(s))))
    /\ [][\A s \in active \cap Streams :
            (worker'[s].lastErr \in RetryableErrors /\ restarts' = restarts)
                => UNCHANGED storeVars]_vars
    /\ [][\A s \in active \cap Streams :
            (/\ W(s).lastErr \in RetryableErrors
             /\ restarts' = restarts
             /\ worker'[s].lastReq # W(s).lastReq)
            => RetryTarget(s, worker'[s].lastReq)]_vars

\* a token worker failed on the second page of a sub-query; a protocol worker on a cursor page
C7_Witness ==
    \E s \in active \cap Streams :
        /\ W(s).lastErr \in RetryableErrors
        /\ W(s).lastReq.cursor # None

\* C7 as stated: after a retryable failure the next request is the same (height, cursor)
C7_Original ==
    \A s \in active \cap Streams :
        W(s).lastErr \in RetryableErrors
            => /\ W(s).pc = "loop"
               /\ W(s).height = W(s).lastReq.height
               /\ W(s).cursor = W(s).lastReq.cursor

(***************************************************************************)
(* SpecPeers: ingestion workers of spawn_mainnet_indexer and               *)
(* spawn_ao_token_indexer, each a task of its own, running side by side    *)
(* over one store and one gateway whose page requests may fail: the two    *)
(* token workers and one of the protocol workers are scheduled.            *)
(***************************************************************************)
\* heights per worker followed when the workers run side by side
PeerBlocks == 1

PeerEnv ==
    [transport |-> {ErrHttp400, NoTransactionsBody}, store |-> {},
     tips |-> {-1, 1}, tipFails |-> FALSE,
     blocks |-> [s \in Components |-> PeerBlocks], edgeless |-> 0]

InitPeers ==
    /\ env = PeerEnv
    /\ \E m \in MainnetStreams : active = TokenStreams \cup {m}
    /\ worker = [s \in Streams |-> IF s \in active THEN InitWorker(s) ELSE OffWorker(s)]
    /\ restarts = 0
    /\ EmptyStore
    /\ stats = OffStats
    /\ run = OffRun
    /\ tail = OffTail
    /\ NoHistory
    /\ cycle = OffCycle
    /\ deleg = NoDeleg

NextPeers == WorkerNext

SpecPeers == InitPeers /\ [][NextPeers]_vars

\* what the store holds of stream s
RowsOf(s) ==
    <<{r \in mainnet_messages : r.protocol = s},
      {r \in mainnet_message_tags : r.protocol = s},
      SelectSeq(mainnet_block_state, LAMBDA r : r.protocol = s),
      {r \in ao_token_messages : r.token = s},
      {r \in ao_token_message_tags : r.token = s},
      SelectSeq(ao_token_block_state, LAMBDA r : r.token = s)>>

\* the task of the worker has returned
Terminated(s) == W(s).pc = "failed"

\* the worker has walked every height of its chain that the model follows
ChainWalked(s) == W(s).pc = "loop" /\ W(s).height > MaxHeight(s)

(***************************************************************************)
(* C8 -- other errors (amended).  A token worker whose page fetch fails    *)
(* with an error that is neither retryable nor the empty block terminates: *)
(* from then on it makes no step and no row of its stream is written.  The *)
(* step in which it terminates changes no other worker and no row of       *)
(* another stream, and every other worker that has not terminated itself   *)
(* can still take its next step.  A protocol worker does not terminate on  *)
(* any fetch error: it sleeps and retries the same (height, cursor).       *)
(***************************************************************************)
C8_OtherErrors ==
    /\ [](\A s \in active \cap Streams :
            W(s).lastErr \in OtherErrors
                => IF s \in TokenStreams
                   THEN Terminated(s)
                   ELSE /\ W(s).pc = "loop"
                        /\ W(s).height = W(s).lastReq.height
                        /\ W(s).cursor = W(s).lastReq.cursor)
    /\ [][\A s \in active \cap Streams :
            Terminated(s) => worker'[s] = W(s) /\ RowsOf(s)' = RowsOf(s)]_vars
    /\ [][\A s \in active \cap Streams :
            (~Terminated(s) /\ worker'[s].pc = "failed")
                => /\ active' = active
                   /\ \A t \in active \ {s} :
                        worker'[t] = W(t) /\ RowsOf(t)' = RowsOf(t)]_vars
    /\ [](\A s \in active \cap Streams :
            Terminated(s) =>
                \A t \in active \ {s} :
                    (~Terminated(t) /\ ~ChainWalked(t)) => ENABLED WorkerOf(t))

\* a token worker has terminated on such an error at its first height, the other
\* token worker has completed that height of its own stream, and a protocol worker
\* that met such an error stands at the top of its loop
C8_Witness ==
    \E s, t \in active \cap TokenStreams, m \in active \cap MainnetStreams :
        /\ s # t
        /\ Terminated(s)
        /\ W(s).lastErr \in OtherErrors
        /\ W(s).lastReq.height = StartHeight(s)
        /\ fetch_ao_token_block_state(ao_token_block_state, s) = None
        /\ fetch_ao_token_block_state(ao_token_block_state, t) # None
        /\ W(t).height > StartHeight(t)
        /\ W(m).lastErr \in OtherErrors
        /\ W(m).pc = "loop"

\* C8 as stated: on any other error the worker terminates
C8_Original ==
    \A s \in active \cap Streams : W(s).lastErr \in OtherErrors => Terminated(s)

(***************************************************************************)
(* C9 -- transient errors, as stated.  A worker whose gateway call ended   *)
(* with a transient error (HTTP 5xx, 429, timeout, connection reset) is    *)
(* not stopped by it: it has not terminated.  This covers the stream       *)
(* workers and the global stats thread at its tip, page and timestamp      *)
(* fetches.                                                                *)
(***************************************************************************)
TransientErrors == {ErrHttp503, ErrHttp429, ErrTimeout, ErrIoTimedOut, ErrConnReset}

C9_Original ==
    /\ \A s \in active \cap Streams :
        W(s).lastErr \in TransientErrors => W(s).pc # "failed"
    /\ stats.lastErr \in TransientErrors => stats.pc # "failed"

(***************************************************************************)
(* C6 -- restart idempotence, as stated for the derived explorer rows.     *)
(* Once the process has been restarted and has rebuilt the explorer table, *)
(* with the raw message and tag tables as they were when it stopped, every *)
(* explorer row that existed before the restart is in the table again,     *)
(* unchanged.                                                              *)
(***************************************************************************)
C6_Original ==
    (/\ restarts > 0
     /\ run.pc \in {"spawn_tail", "run_once", "tick"}
     /\ raw_before = <<mainnet_messages, mainnet_message_tags>>)
        => explorer_before \subseteq mainnet_explorer

(***************************************************************************)
(* C10 -- supervisor isolation, as stated for the explorer rebuild.  A     *)
(* failure of the rebuild is only logged: it does not make the supervisor  *)
(* return before it has spawned the explorer tail and started the snapshot *)
(* cycle.                                                                  *)
(***************************************************************************)
C10_Original ==
    run.cause = "rebuild" => run.pc # "exit"

(***************************************************************************)
(* C11 -- token heights.  A token worker at height h writes the block-     *)
(* state row of h and moves to h + 1 only after the transfer sub-query and *)
(* then the process sub-query of h were paginated to their last page with  *)
(* every page stored; the process sub-query starts only when the transfer  *)
(* sub-query has ended without error; a failed fetch or insert inside a    *)
(* sub-query writes no block-state row and leaves the height as it is.     *)
(* The pages are those the scanner returned; they are the pages of the     *)
(* chain as long as the gateway has answered no body without edges.        *)
(***************************************************************************)
\* every page of sub-query q of token s at height h is in the store
TokenQueryStored(s, q, h) ==
    LET pages == TokenWalk(s, q, h, None, MaxPages)
    IN  \A k \in DOMAIN pages : TokenPageStored(s, q, pages[k])

\* the step of the worker of s is the successful last insert of sub-query q
TokenQueryEnds(s, q) ==
    /\ W(s).pc = "insert_tags"
    /\ W(s).query = q
    /\ ~TokenHasMore(W(s).page)
    /\ TokenTagRows(s, q, W(s).page) \subseteq ao_token_message_tags'

\* the step of the worker of s ends a sub-query with an error
TokenQueryFails(s) ==
    /\ W(s).pc \in {"loop", "ingest", "insert_messages", "insert_tags"}
    /\ worker'[s].pc \in {"loop", "failed"}
    /\ worker'[s] # W(s)
    /\ worker'[s].network_tip = W(s).network_tip
    /\ worker'[s].tipOk = W(s).tipOk

C11_TokenHeightAfterBothQueries ==
    /\ [](TokenAnswersWhole =>
          \A s \in active \cap TokenStreams :
            /\ W(s).pc = "advance"
                => /\ TokenQueryStored(s, "transfer", W(s).height)
                   /\ TokenQueryStored(s, "process", W(s).height)
            /\ (W(s).query = "process" /\ W(s).pc \in {"ingest", "insert_messages", "insert_tags"})
                => TokenQueryStored(s, "transfer", W(s).height))
    /\ [][\A s \in active \cap TokenStreams :
            restarts' = restarts =>
                /\ (worker'[s].query = "process" /\ W(s).query # "process")
                        => TokenQueryEnds(s, "transfer")
                /\ (worker'[s].pc = "advance" /\ W(s).pc # "advance")
                        => TokenQueryEnds(s, "process")
                /\ (W(s).pc # "resume" /\ worker'[s].height # W(s).height)
                        => /\ W(s).pc = "advance"
                           /\ worker'[s].height = W(s).height + 1
                           /\ ao_token_block_state' =
                                Append(ao_token_block_state,
                                       AoTokenBlockStateRow(s, W(s).height))
                /\ ao_token_block_state' # ao_token_block_state
                        => /\ W(s).pc = "advance"
                           /\ worker'[s].height = W(s).height + 1
                /\ TokenQueryFails(s)
                        => /\ UNCHANGED ao_token_block_state
                           /\ worker'[s].height = W(s).height]_vars

\* a block-state row was written for a height whose transfer sub-query has two pages,
\* and at the next height the process sub-query has failed: no row of that height exists
C11_Witness ==
    \E s \in active \cap TokenStreams :
        \E i \in DOMAIN ao_token_block_state :
            /\ ao_token_block_state[i].token = s
            /\ Len(TokenWalk(s, "transfer", ao_token_block_state[i].last_complete_height,
                             None, MaxPages)) > 1
            /\ W(s).height = ao_token_block_state[i].last_complete_height + 1
            /\ W(s).lastErr # <<>>
            /\ W(s).lastReq.height = W(s).height
            /\ W(s).lastReq.query = "process"
            /\ \A j \in DOMAIN ao_token_block_state :
                    ao_token_block_state[j].last_complete_height # W(s).height

(***************************************************************************)
(* C12 -- token pagination.  After the rows of a page of a token sub-query *)
(* were inserted, the pagination loop ends with success when the page has  *)
(* has_next_page = false, and also when it has has_next_page = true with   *)
(* no end_cursor; otherwise it requests the next page of the same          *)
(* sub-query after end_cursor.  The loop ends without an error in no other *)
(* case.                                                                   *)
(***************************************************************************)
\* the worker of s has left sub-query q with success: it is before the first fetch of
\* the process sub-query, or before the block-state write
TokenQueryReturnedOk(s, q, w) ==
    /\ w.cursor = None
    /\ IF q = "transfer" THEN w.pc = "ingest" /\ w.query = "process"
                         ELSE w.pc = "advance" /\ w.query = "process"

\* the step of the worker of s is a successful tag insert, the last call of a loop turn
TokenPageInserted(s) ==
    /\ restarts' = restarts
    /\ W(s).pc = "insert_tags"
    /\ worker'[s].pc \in {"ingest", "advance"}

\* the page the most recent request of the worker of s returned
LastPage(s) ==
    scan_arweave_block_for_token_msgs(W(s).lastReq.query,
        GatewayResponse(s, W(s).lastReq.query, W(s).lastReq.height, W(s).lastReq.cursor)).page

C12_TokenPaginationEnds ==
    [][\A s \in active \cap TokenStreams :
        /\ TokenPageInserted(s) =>
            /\ TokenPageStored(s, W(s).query, W(s).page)'
            /\ IF ~W(s).page.has_next_page \/ W(s).page.end_cursor = None
               THEN TokenQueryReturnedOk(s, W(s).query, worker'[s])
               ELSE /\ worker'[s].pc = "ingest"
                    /\ worker'[s].query = W(s).query
                    /\ worker'[s].cursor = W(s).page.end_cursor
                    /\ worker'[s].height = W(s).height
        /\ (/\ restarts' = restarts
            /\ W(s).pc \in {"ingest", "insert_messages", "insert_tags"}
            /\ TokenQueryReturnedOk(s, W(s).query, worker'[s])
            /\ worker'[s] # W(s))
            => /\ TokenPageInserted(s)
               /\ ~W(s).page.has_next_page \/ W(s).page.end_cursor = None]_vars

\* the transfer sub-query has returned Ok after a stored page with has_next_page = true
\* and no end_cursor
C12_Witness ==
    \E s \in active \cap TokenStreams :
        /\ W(s).lastErr = <<>>
        /\ TokenQueryReturnedOk(s, "transfer", W(s))
        /\ W(s).lastReq.query = "transfer"
        /\ W(s).lastReq.height = W(s).height
        /\ LastPage(s).has_next_page
        /\ LastPage(s).end_cursor = None
        /\ LastPage(s).mappings # <<>>
        /\ TokenPageStored(s, "transfer", LastPage(s))

(***************************************************************************)
(* C13.  At every reachable state oracle_snapshots holds at most one row   *)
(* per (ticker, tx_id), and every step that changes the table appends      *)
(* exactly one row whose (ticker, tx_id) has_oracle reports absent in the  *)
(* table before the step.  Checked over cycles that load an unchanged      *)
(* message again, over a ticker list that names a ticker twice, and over   *)
(* restarts between the gate and the insert.                               *)
(***************************************************************************)
OracleRowsUnique ==
    \A i, j \in DOMAIN oracle_snapshots :
        (/\ oracle_snapshots[i].ticker = oracle_snapshots[j].ticker
         /\ oracle_snapshots[i].tx_id = oracle_snapshots[j].tx_id) => i = j

OracleInsertedWhenAbsent ==
    oracle_snapshots' # oracle_snapshots =>
        /\ Len(oracle_snapshots') = Len(oracle_snapshots) + 1
        /\ SubSeq(oracle_snapshots', 1, Len(oracle_snapshots)) = oracle_snapshots
        /\ LET row == oracle_snapshots'[Len(oracle_snapshots')]
           IN  ~has_oracle(oracle_snapshots, row.ticker, row.tx_id)

C13_OracleSnapshotUnique == []OracleRowsUnique /\ [][OracleInsertedWhenAbsent]_vars

\* the third ticker of the list is the first one again, its message is already stored
\* beside the row of the second ticker, and the cycle stands at the gate
C13_Witness ==
    /\ cycle.pc = "gate"
    /\ cycle.i = 3
    /\ Len(oracle_snapshots) = 2
    /\ has_oracle(oracle_snapshots, cycle.loc.ticker, cycle.loc.tx_id)

(***************************************************************************)
(* C14.  Whenever a cycle stands at the gate of index_ticker with a        *)
(* message whose (ticker, tx_id) has_oracle reports present, the rows      *)
(* derived from that snapshot are in the store: for every entry of the     *)
(* message whose amount parses, a wallet_balances row and a                *)
(* wallet_delegations row with the snapshot's ts, and, when the amount is  *)
(* not zero, at least one flp_positions row with that ts.                  *)
(***************************************************************************)
\* the rows derived from the snapshot of oracle row `row`, whose message has `balances`
SnapshotWritten(row, balances) ==
    \A i \in DOMAIN balances :
        LET entry == balances[i]
            amount == normalize_amount(entry.amount, row.ticker)
        IN  IsSome(amount) =>
                /\ \E b \in wallet_balances :
                        /\ b.ts = row.ts /\ b.ticker = row.ticker
                        /\ b.wallet = entry.ar_address /\ b.tx_id = row.tx_id
                /\ \E d \in wallet_delegations :
                        d.ts = row.ts /\ d.wallet = entry.ar_address
                /\ ~Decimal_is_zero(Unwrap(amount)) =>
                        \E p \in flp_positions :
                            /\ p.ts = row.ts /\ p.ticker = row.ticker
                            /\ p.wallet = entry.ar_address

C14_Original ==
    (/\ cycle.pc = "gate"
     /\ has_oracle(oracle_snapshots, cycle.loc.ticker, cycle.loc.tx_id))
        => \A i \in DOMAIN oracle_snapshots :
                (/\ oracle_snapshots[i].ticker = cycle.loc.ticker
                 /\ oracle_snapshots[i].tx_id = cycle.loc.tx_id)
                    => SnapshotWritten(oracle_snapshots[i], cycle.loc.balances)

(***************************************************************************)
(* C15, as stated.  For every row P of flp_positions there is a row B of   *)
(* wallet_balances with the same ticker, wallet and ts, and                *)
(* P.amount * MAX_FACTOR = B.amount * P.factor as decimal numbers.         *)
(***************************************************************************)
\* a = b for two decimals, compared at the larger of the two scales
DecimalEq(a, b) ==
    LET e == IF a.e >= b.e THEN a.e ELSE b.e
    IN  a.m * Pow10(e - a.e) = b.m * Pow10(e - b.e)

C15_Original ==
    \A p \in flp_positions :
        \E b \in wallet_balances :
            /\ b.ticker = p.ticker /\ b.wallet = p.wallet /\ b.ts = p.ts
            /\ DecimalEq(Decimal(p.amount.m * MAX_FACTOR, p.amount.e),
                         Decimal(b.amount.m * p.factor, b.amount.e))

(***************************************************************************)
(* C16.  For every wallet of every snapshot, the factors of its            *)
(* flp_positions rows add up to at most MAX_FACTOR and each factor lies in *)
(* 0..MAX_FACTOR.                                                          *)
(***************************************************************************)
RECURSIVE SumRowFactors(_)
SumRowFactors(rows) ==
    IF rows = {} THEN 0
    ELSE LET r == CHOOSE x \in rows : TRUE
         IN  r.factor + SumRowFactors(rows \ {r})

\* the position rows built from one entry of one snapshot
PositionsOf(ts, ticker, wallet, eoa) ==
    {q \in flp_positions :
        q.ts = ts /\ q.ticker = ticker /\ q.wallet = wallet /\ q.eoa = eoa}

C16_Original ==
    \A p \in flp_positions :
        /\ p.factor \in 0..MAX_FACTOR
        /\ SumRowFactors(PositionsOf(p.ts, p.ticker, p.wallet, p.eoa)) <= MAX_FACTOR

(***************************************************************************)
(* C17.  A holder whose wallet has emitted no Set-Delegation message       *)
(* yields, in every snapshot that contains the holder with an amount that  *)
(* parses, no flp_positions row when its normalised amount and its AR      *)
(* balance are both zero, and otherwise exactly one row, whose project is  *)
(* the PI project and whose factor is MAX_FACTOR; and every stored row of  *)
(* such a holder is that single row of its snapshot.                       *)
(***************************************************************************)
\* the gateway knows no Set-Delegation message of the wallet
NoSetDelegation(wallet) ==
    env.wallets[wallet].lookup.ok /\ env.wallets[wallet].lookup.edges = <<>>

\* the pair yields exactly one position row, of the PI project with the whole factor
OnePiPosition(p) ==
    \E r \in Range(PairPositionRows(cycle.loc.now, cycle.loc.ticker, p)) :
        /\ PairPositionRows(cycle.loc.now, cycle.loc.ticker, p) = <<r>>
        /\ r.project = PI_PID
        /\ r.factor = MAX_FACTOR

\* the holders without Set-Delegation among the parsed entries of the cycle's snapshot
DefaultHolders ==
    {i \in Parsed(cycle.loc.pairs, cycle.loc.ticker) :
        NoSetDelegation(cycle.loc.pairs[i].entry.ar_address)}

C17_DefaultPosition ==
    /\ cycle.pc = "insert_positions" =>
            \A i \in DefaultHolders :
                LET p == cycle.loc.pairs[i]
                    amount == Unwrap(normalize_amount(p.entry.amount, cycle.loc.ticker))
                IN  IF Decimal_is_zero(amount) /\ Decimal_is_zero(p.ar_balance)
                    THEN PairPositionRows(cycle.loc.now, cycle.loc.ticker, p) = <<>>
                    ELSE OnePiPosition(p)
    /\ \A r \in flp_positions :
            NoSetDelegation(r.wallet) =>
                /\ r.project = PI_PID
                /\ r.factor = MAX_FACTOR
                /\ PositionsOf(r.ts, r.ticker, r.wallet, r.eoa) = {r}

\* the claim as stated: one row for every such holder of every snapshot
C17_Original ==
    cycle.pc = "insert_positions" =>
        \A i \in DefaultHolders : OnePiPosition(cycle.loc.pairs[i])

\* wallet w2 has a stored balance row of a snapshot in which its amount and its AR
\* balance were zero and no position row of that snapshot, and the one PI row of a
\* later snapshot
C17_Witness ==
    /\ \E b \in wallet_balances :
            /\ b.wallet = "w2"
            /\ Decimal_is_zero(b.amount) /\ Decimal_is_zero(b.ar_balance)
            /\ PositionsOf(b.ts, b.ticker, b.wallet, b.eoa) = {}
    /\ \E r \in flp_positions :
            /\ r.wallet = "w2"
            /\ r.amount = Decimal(2, 0)
            /\ PositionsOf(r.ts, r.ticker, r.wallet, r.eoa) = {r}

(***************************************************************************)
(* C18.  When get_wallet_delegations returns a preference of a wallet that *)
(* has Set-Delegation messages, it is the payload of a candidate tied at   *)
(* the maximum block height: the first one whose total_factor (the sum of  *)
(* the factors when the field is absent) is >= MAX_FACTOR if there is      *)
(* one, and otherwise the last parsed one.                                 *)
(***************************************************************************)
\* the messages of the first query at the maximum block height, in gateway order
TiedAtMax(edges) ==
    LET h(c) == IF c.height = None THEN 0 ELSE Unwrap(c.height)
    IN  SelectSeq(edges, LAMBDA c : \A j \in DOMAIN edges : h(edges[j]) <= h(c))

CandidateParsed(c) == c.blob.err = ""

TotalFactor(c) ==
    IF c.blob.res.total_factor = None
    THEN SumFactors(c.blob.res.delegation_prefs)
    ELSE Unwrap(c.blob.res.total_factor)

\* the payload of candidate c as get_wallet_delegations returns it
ReturnedFrom(c) == [c.blob.res EXCEPT !.delegation_msg_id = c.id]

C18_ResolutionOrder ==
    (/\ deleg.pc = "done"
     /\ deleg.result.ok
     /\ deleg.lookup.edges # <<>>)
        => LET tied == TiedAtMax(deleg.lookup.edges)
               parsed == {i \in DOMAIN tied : CandidateParsed(tied[i])}
               full == {i \in parsed : TotalFactor(tied[i]) >= MAX_FACTOR}
           IN  \E k \in parsed :
                /\ Unwrap(deleg.result.res) = ReturnedFrom(tied[k])
                /\ IF full # {} THEN k \in full /\ \A j \in full : k <= j ELSE \A j \in parsed : j <= k

\* three messages, the first pending and so not tied; of the two tied ones the first
\* has a total below MAX_FACTOR and the second, which is returned, reaches it
C18_Witness ==
    /\ deleg.pc = "done"
    /\ deleg.result.ok
    /\ Len(deleg.lookup.edges) = 3
    /\ LET tied == TiedAtMax(deleg.lookup.edges)
       IN  /\ Len(tied) = 2
           /\ CandidateParsed(tied[1]) /\ TotalFactor(tied[1]) < MAX_FACTOR
           /\ CandidateParsed(tied[2]) /\ TotalFactor(tied[2]) >= MAX_FACTOR
           /\ Unwrap(deleg.result.res) = ReturnedFrom(tied[2])

(***************************************************************************)
(* C19.  get_wallet_delegations returns an error only if every candidate   *)
(* attempt fails: when the first query succeeds and at least one candidate *)
(* tied at the maximum height resolves and parses, the result is a         *)
(* preference.                                                             *)
(***************************************************************************)
C19_Original ==
    (/\ deleg.pc = "done"
     /\ deleg.lookup.ok
     /\ \E i \in DOMAIN TiedAtMax(deleg.lookup.edges) :
            CandidateParsed(TiedAtMax(deleg.lookup.edges)[i]))
        => deleg.result.ok

(***************************************************************************)
(* C20.  In atlas_explorer and in ao_mainnet_explorer alike, every row     *)
(* other than the one of the lowest height has each rolling column equal   *)
(* to the rolling column of the row of the next lower height plus its own  *)
(* base column (tx_count, new_process_count, new_module_count), also when  *)
(* the lower row was written by the rebuild and the upper one by the tail. *)
(***************************************************************************)
\* the row of the next lower height
PreviousRow(table, r) ==
    CHOOSE p \in table :
        /\ p.height < r.height
        /\ \A o \in table : o.height < r.height => o.height <= p.height

RollingChain(table) ==
    \A r \in table :
        (\E o \in table : o.height < r.height) =>
            LET prev == PreviousRow(table, r)
            IN  /\ r.tx_count_rolling = BigAdd(prev.tx_count_rolling, r.tx_count)
                /\ r.processes_rolling = prev.processes_rolling + r.new_process_count
                /\ r.modules_rolling = prev.modules_rolling + r.new_module_count

C20_RollingChain == RollingChain(atlas_explorer) /\ RollingChain(mainnet_explorer)

\* the rebuild ended at a height whose row is in the table, and the tail has since
\* inserted rows of greater heights
C20_Witness ==
    /\ run.pc \in {"run_once", "tick"}
    /\ tail.pc = "fetch"
    /\ \E r \in mainnet_explorer : r.height = run.loc.last_height
    /\ tail.loc.rows # {}
    /\ tail.loc.rows \subseteq mainnet_explorer
    /\ \A r \in tail.loc.rows : r.height > run.loc.last_height /\ r.tx_count > 0

(***************************************************************************)
(* C21.  The rebuild of ao_mainnet_explorer starts from height 0 and       *)
(* rolling counters 0 (not from the checkpoint of the global stats         *)
(* thread); it builds exactly one derived row per metrics row, every       *)
(* metrics row has at least one message, and the rolling counters of every *)
(* derived row equal the sum of the base columns of all derived rows up to *)
(* and including it.                                                       *)
(***************************************************************************)
RECURSIVE SumColumn(_, _)
SumColumn(rows, col) ==
    IF rows = {} THEN 0
    ELSE LET r == CHOOSE x \in rows : TRUE
         IN  r[col] + SumColumn(rows \ {r}, col)

\* the rows of the table up to and including height h
RowsUpTo(table, h) == {o \in table : o.height <= h}

\* the rolling columns of every row are seed plus the partial sums of the base columns
RollingFromSeed(table, seed) ==
    \A r \in table :
        LET upto == RowsUpTo(table, r.height)
        IN  /\ r.tx_count_rolling =
                    BigAdd(seed.tx_count_rolling, SumColumn(upto, "tx_count"))
            /\ r.processes_rolling =
                    seed.processes_rolling + SumColumn(upto, "new_process_count")
            /\ r.modules_rolling =
                    seed.modules_rolling + SumColumn(upto, "new_module_count")

ZeroSeed == [tx_count_rolling |-> [hi |-> 0, lo |-> 0], processes_rolling |-> 0,
             modules_rolling |-> 0]

\* a page of the rebuild: one row per metrics row, each of a height with messages
RebuildOneRowPerMetric ==
    (run.pc = "rebuild_fetch" /\ run'.pc = "rebuild_insert") =>
        LET metrics == fetch_mainnet_block_metrics(mainnet_messages, mainnet_message_tags,
                                                   run.loc.last_height, EXPLORER_PAGE_LIMIT)
        IN  /\ Cardinality(run'.loc.rows) = Len(metrics)
            /\ {r.height : r \in run'.loc.rows} = {metrics[i].height : i \in DOMAIN metrics}
            /\ \A i \in DOMAIN metrics : metrics[i].tx_count >= 1
            /\ run'.loc.last_height = metrics[Len(metrics)].height

C21_RebuildFromZero ==
    /\ [](run.pc = "rebuild_fetch" /\ mainnet_explorer = {} =>
                /\ run.loc.last_height = 0
                /\ run.loc.tx_roll = ZeroSeed.tx_count_rolling
                /\ run.loc.proc_roll = 0
                /\ run.loc.mod_roll = 0)
    /\ []RollingFromSeed(mainnet_explorer, ZeroSeed)
    /\ [][RebuildOneRowPerMetric]_vars

\* the claim as stated: the rolling counters start from the checkpoint
C21_Original == RollingFromSeed(mainnet_explorer, LATEST_AGG_STATS_SET)

\* the rebuild has ended after writing the rows of two heights
C21_Witness ==
    /\ run.pc = "spawn_tail"
    /\ run.loc.rows # {}
    /\ run.loc.rows \subseteq mainnet_explorer
    /\ Cardinality(mainnet_explorer) >= 2

(***************************************************************************)
(* C22.  A rebuild that ran over an unchanging set of message and tag rows *)
(* leaves a table that those rows determine: one row for every height that *)
(* has a message and no other row, the base columns of each row being the  *)
(* metrics of its height and the rolling columns the partial sums from     *)
(* zero.  Two rebuilds over the same rows therefore leave the same table,  *)
(* whatever the table held before.  The rebuild observed is the one after  *)
(* a restart, with the raw tables as they were when the process stopped.   *)
(***************************************************************************)
BaseColumns == {"height", "tx_count", "eval_count", "transfer_count",
                "new_process_count", "new_module_count", "active_processes"}

\* the table is the one the message and tag rows determine
DeterminedBy(table, messages, tags) ==
    /\ {r.height : r \in table} = {m.block_height : m \in messages}
    /\ \A r, o \in table : r.height = o.height => r = o
    /\ \A r \in table :
            \A col \in BaseColumns :
                r[col] = MainnetBlockMetricRow(messages, tags, r.height)[col]
    /\ RollingFromSeed(table, ZeroSeed)

C22_RebuildDetermined ==
    (/\ restarts > 0
     /\ run.pc = "spawn_tail"
     /\ raw_before = <<mainnet_messages, mainnet_message_tags>>)
        => DeterminedBy(mainnet_explorer, mainnet_messages, mainnet_message_tags)

\* the rebuild after a restart has ended over unchanged raw tables with rows of two
\* heights, and the table it replaced was a different one
C22_Witness ==
    /\ restarts > 0
    /\ run.pc = "spawn_tail"
    /\ raw_before = <<mainnet_messages, mainnet_message_tags>>
    /\ Cardinality(mainnet_explorer) >= 2
    /\ explorer_before # mainnet_explorer
    /\ explorer_before # {}

(***************************************************************************)
(* C23: heights of the global stats thread within one run                  *)
(***************************************************************************)
\* one step of the stats thread that is not a process restart
StatsRunStep == restarts' = restarts /\ "stats" \in active

\* the step that invokes the handler: it leaves the position "handler"
HandlerInvoked == stats.pc = "handler" /\ stats'.pc # "handler"

\* C23: within one run of run_stats_indexer_from the handler is invoked for
\* strictly increasing heights: each invocation is for the height just above the
\* last one handled in this run (or above the seed), the rows it commits carry that
\* height, and the height of the loop never moves down
C23_StatsAscending ==
    [][StatsRunStep =>
        /\ stats'.height >= stats.height
        /\ stats'.last.height >= stats.last.height
        /\ HandlerInvoked =>
            /\ stats.cur.height = stats.height
            /\ stats.cur.height > stats.last.height
            /\ \A r \in atlas_explorer' \ atlas_explorer : r.height = stats.height
            /\ \A r \in atlas_explorer : r.height # stats.height => r \in atlas_explorer'
            /\ stats'.pc # "failed" =>
                    /\ stats'.height = stats.height + 1
                    /\ stats'.last.height = stats.height]_vars

\* the handler is about to run a second time in one run, the first row committed
C23_Witness ==
    /\ "stats" \in active
    /\ restarts = 0
    /\ stats.pc = "handler"
    /\ stats.last.height > LATEST_AGG_STATS_SET.height
    /\ \E r \in atlas_explorer : r.height = stats.last.height

(***************************************************************************)
(* C24: resume of a protocol worker when the gateway's tip is below the    *)
(* stored height                                                           *)
(***************************************************************************)
\* the worker of s has resumed from a stored state and fetched no page yet, and the
\* tip the gateway reported is below the stored last_complete_height
ResumedBelowStored(s) ==
    LET st == fetch_mainnet_block_state(mainnet_block_state, s)
    IN  /\ W(s).pc = "loop"
        /\ W(s).lastReq = NoReq
        /\ W(s).tipOk
        /\ st # None
        /\ Unwrap(st).last_complete_height > W(s).network_tip

\* C24 as stated: after a resume that finds the stored last_complete_height above
\* the tip, and before any page is fetched, the cursor is cleared, in the worker and
\* in the stored state
C24_Original ==
    \A s \in active \cap MainnetStreams :
        ResumedBelowStored(s) =>
            /\ W(s).cursor = None
            /\ Unwrap(fetch_mainnet_block_state(mainnet_block_state, s)).last_cursor = ""

(***************************************************************************)
(* C25: the worker toggles of the configuration                            *)
(***************************************************************************)
\* the toggle of the configuration that belongs to a stream's worker
ToggleOf(s) ==
    IF s \in MainnetStreams THEN env.indexers.mainnet
    ELSE IF s = "ao" THEN env.indexers.ao
    ELSE env.indexers.pi

\* C25 as stated: a worker whose toggle is false is never spawned: the stream
\* workers, the stats thread of the explorer and the snapshot cycle stay off
C25_Original ==
    /\ \A s \in Streams : ~ToggleOf(s) => worker[s].pc = "off"
    /\ ~env.indexers.explorer => stats.pc = "off"
    /\ ~env.indexers.flp => cycle.pc = "idle" /\ run.pc # "tick"

(***************************************************************************)
(* C26: pages with zero messages                                           *)
(***************************************************************************)
\* the worker of s holds a page that its last fetch returned as a success
HoldsPage(s) == W(s).pc = "insert_messages"

\* C26, protocol variants only: a page a protocol worker got as a success has at
\* least one message, a response without a usable edge is the empty-block error of
\* the same request; a token scan never returns that error, and a page a token
\* worker got as a success may have no message
C26_ProtocolPageNonEmpty ==
    /\ \A s \in active \cap MainnetStreams :
        /\ HoldsPage(s) => W(s).page.mappings # <<>>
        /\ W(s).lastReq # NoReq =>
            (is_empty_block_error(W(s).lastErr)
                <=> scan_arweave_block_for_msgs(
                        GatewayResponse(s, "mainnet", W(s).lastReq.height,
                                        W(s).lastReq.cursor)).err = ErrEmptyBlock
                    /\ W(s).lastErr = ErrEmptyBlock)
    /\ \A s \in active \cap TokenStreams : ~is_empty_block_error(W(s).lastErr)

\* C26 as stated: no worker of any variant holds a successful page without messages
C26_Original ==
    \A s \in active \cap Streams : HoldsPage(s) => W(s).page.mappings # <<>>

\* a protocol worker was answered the empty-block error for a block without messages
C26_Witness ==
    \E s \in active \cap MainnetStreams :
        /\ W(s).lastReq # NoReq
        /\ W(s).lastErr = ErrEmptyBlock
        /\ GatewayResponse(s, "mainnet", W(s).lastReq.height, W(s).lastReq.cursor).edges
                = Some(<<>>)

(***************************************************************************)
(* C27: the wallet and the preferences of a resolved delegation            *)
(***************************************************************************)
\* C27 as stated: a resolution that succeeds has a non-empty preference list and a
\* wallet field equal to the queried address
C27_Original ==
    deleg.pc = "done" /\ deleg.result.ok =>
        /\ Unwrap(deleg.result.res).delegation_prefs # <<>>
        /\ Unwrap(deleg.result.res).wallet = Some(deleg.address)

(***************************************************************************)
(* C28: failures inside a snapshot cycle                                   *)
(***************************************************************************)
\* the positions of index_ticker after its oracle was loaded
TickerSteps ==
    {"gate", "insert_oracle", "fanout", "insert_balances", "insert_delegations",
     "insert_positions"}

\* the positions of index_delegation_mappings, in the order of its awaits
MappingSteps == <<"idle", "has_mapping", "build_mapping", "insert_mappings">>

\* a step of the cycle inside one run of the process
CycleStep == restarts' = restarts /\ cycle' # cycle

\* C28: no failure inside a cycle ends the supervisor or the ticker loop: the
\* mapping indexer is always followed by the first ticker, a ticker that fails or
\* ends is followed by the next one, run_once returns only after the loop has gone
\* over every ticker, and the tick after it starts a new iteration at the mapping
\* indexer
C28_CycleGoesOn ==
    /\ [](run.pc \in {"run_once", "tick"})
    /\ [](cycle.pc = "return" => cycle.i = Len(env.tickers) + 1)
    /\ [](run.pc = "tick" => cycle.pc = "idle" /\ cycle.i = 1)
    /\ [][CycleStep =>
            /\ \A k \in DOMAIN MappingSteps :
                cycle.pc = MappingSteps[k] =>
                    \/ cycle'.pc = "ticker" /\ cycle'.i = 1
                    \/ /\ k < Len(MappingSteps)
                       /\ cycle'.pc = MappingSteps[k + 1]
                       /\ cycle'.i = 1
            /\ cycle.pc \in TickerSteps =>
                \/ cycle'.pc \in TickerSteps /\ cycle'.i = cycle.i
                \/ cycle' = NextTicker(cycle)
            /\ cycle.pc = "ticker" /\ cycle.i <= Len(env.tickers) =>
                \/ cycle'.pc = "gate" /\ cycle'.i = cycle.i
                \/ cycle'.pc = "ticker" /\ cycle'.i = cycle.i + 1
            /\ cycle.pc = "return" => cycle'.pc = "idle" /\ run'.pc = "tick"]_vars
    /\ [][run.pc = "tick" /\ run'.pc # "tick" /\ restarts' = restarts
            => run'.pc = "run_once" /\ cycle'.pc = "idle"]_vars

\* the mapping indexer and the first ticker of this cycle have failed, and the
\* second ticker is being indexed
C28_Witness ==
    /\ restarts = 0
    /\ env.mappings # <<>>
    /\ delegation_mappings = {}
    /\ oracle_snapshots = <<>>
    /\ cycle.i = 2
    /\ cycle.pc = "insert_oracle"

(***************************************************************************)
(* C29: where a worker resumes                                             *)
(***************************************************************************)
\* the step in which the worker of s has read its block state and enters its loop
ResumeStep(s) == W(s).pc = "resume" /\ worker'[s].pc = "first_tip"

\* the latest stored state of stream s, of the protocol or of the token table
StoredState(s) ==
    IF s \in MainnetStreams THEN fetch_mainnet_block_state(mainnet_block_state, s)
    ELSE fetch_ao_token_block_state(ao_token_block_state, s)

\* the stored cursor; a token state has no cursor column
StoredCursor(s) ==
    IF s \in MainnetStreams /\ StoredState(s) # None
    THEN Unwrap(StoredState(s)).last_cursor ELSE ""

\* C29: a worker without a stored state resumes at its genesis height without a
\* cursor; with a stored non-empty cursor it resumes at last_complete_height with
\* that cursor; with a stored empty cursor at last_complete_height + 1 without one
C29_ResumePosition ==
    [][\A s \in active \cap Streams :
        ResumeStep(s) =>
            IF StoredState(s) = None
            THEN /\ worker'[s].height = StartHeight(s)
                 /\ worker'[s].cursor = None
            ELSE IF StoredCursor(s) # ""
            THEN /\ worker'[s].height = Unwrap(StoredState(s)).last_complete_height
                 /\ worker'[s].cursor = Some(StoredCursor(s))
            ELSE /\ worker'[s].height = Unwrap(StoredState(s)).last_complete_height + 1
                 /\ worker'[s].cursor = None]_vars

\* a protocol worker has resumed in the middle of a block, at the stored height
\* with the stored cursor, and has fetched nothing yet
C29_Witness ==
    \E s \in active \cap MainnetStreams :
        /\ restarts > 0
        /\ W(s).pc = "loop"
        /\ W(s).lastReq = NoReq
        /\ StoredCursor(s) # ""
        /\ W(s).cursor = Some(StoredCursor(s))
        /\ W(s).height = Unwrap(StoredState(s)).last_complete_height

(***************************************************************************)
(* C30: the advance of a protocol worker after a persisted page            *)
(***************************************************************************)
\* the step in which the worker of s has written its block state and goes on
AdvanceStep(s) == W(s).pc = "advance" /\ worker'[s].pc = "loop"

\* the cursor committed for a page: its end cursor if it has a next page, else ""
CommittedCursor(page) ==
    IF page.has_next_page /\ page.end_cursor # None THEN page.end_cursor[1] ELSE ""

\* the step in which the worker of s sends a page request
PageRequestStep(s) ==
    /\ restarts' = restarts
    /\ W(s).pc = "loop"
    /\ worker'[s].lastReq # W(s).lastReq

\* C30: after the page at height h is persisted the block state gets the row
\* (h, committed cursor); the height becomes h + 1 exactly if that cursor is empty,
\* otherwise the worker stays at h with the committed cursor, and the next page
\* request is for the worker's height and cursor
C30_Advance ==
    [][\A s \in active \cap MainnetStreams :
        /\ AdvanceStep(s) =>
            LET h == W(s).height
                committed == CommittedCursor(W(s).page)
            IN  /\ mainnet_block_state' =
                        Append(mainnet_block_state,
                               [protocol |-> s, last_complete_height |-> h,
                                last_cursor |-> committed])
                /\ worker'[s].height = h + 1 <=> committed = ""
                /\ committed # "" =>
                        /\ worker'[s].height = h
                        /\ worker'[s].cursor = Some(committed)
                /\ committed = "" => worker'[s].cursor = None
        /\ PageRequestStep(s) =>
            /\ worker'[s].lastReq.height = W(s).height
            /\ worker'[s].lastReq.cursor = W(s).cursor]_vars

\* a page with a next page was persisted: the worker is at the same height with the
\* cursor of the row it has just committed
C30_Witness ==
    \E s \in active \cap MainnetStreams :
        /\ restarts = 0
        /\ W(s).pc = "loop"
        /\ W(s).cursor # None
        /\ W(s).lastReq.height = W(s).height
        /\ StoredState(s) # None
        /\ Unwrap(StoredState(s)).last_complete_height = W(s).height
        /\ Some(StoredCursor(s)) = W(s).cursor

(***************************************************************************)
(* C31: when a protocol worker leaves a height                             *)
(***************************************************************************)
\* a step of the running worker of s that moves it to the next height
LeavesHeight(s) ==
    /\ restarts' = restarts
    /\ W(s).pc # "resume"
    /\ worker'[s].height = W(s).height + 1

\* C31 as stated: a protocol worker leaves a height only with the empty-block
\* error for that height, or after persisting a page of it that has no next page
C31_Original ==
    [][\A s \in active \cap MainnetStreams :
        LeavesHeight(s) =>
            \/ /\ W(s).pc = "advance"
               /\ ~W(s).page.has_next_page
            \/ /\ W(s).pc = "insert_empty_state"
               /\ is_empty_block_error(W(s).lastErr)
               /\ W(s).lastReq.height = W(s).height]_vars

(***************************************************************************)
(* C32: the explorer materializer next to the protocol workers             *)
(***************************************************************************)
\* every running protocol worker has left height h: its rows of h are all stored
StreamsPast(h) == \A s \in active \cap MainnetStreams : W(s).height > h

\* C32 as stated: a derived row of a height the streams have completed has the base
\* counters computed from the stored messages and tags of that height
C32_Original ==
    \A r \in mainnet_explorer :
        StreamsPast(r.height) =>
            \A col \in BaseColumns :
                r[col] = MainnetBlockMetricRow(mainnet_messages, mainnet_message_tags,
                                               r.height)[col]

(***************************************************************************)
(* C33: tx_count of a metrics row and the number of stored messages        *)
(***************************************************************************)
\* the distinct messages stored at height h
MessagesAt(h) == {m \in mainnet_messages : m.block_height = h}

\* the metrics rows the store returns for the tables as they are
MetricsNow ==
    fetch_mainnet_block_metrics(mainnet_messages, mainnet_message_tags, 0,
                                EXPLORER_PAGE_LIMIT)

\* C33 as stated: the tx_count of the metrics row of a height is the number of
\* distinct messages stored at that height, whatever tags they have
C33_Original ==
    \A i \in DOMAIN MetricsNow :
        MetricsNow[i].tx_count = Cardinality(MessagesAt(MetricsNow[i].height))

(***************************************************************************)
(* C34: which (holder, preference) pairs get a position row                *)
(***************************************************************************)
\* the step in which index_ticker has stored the position rows of its snapshot
PositionsStored ==
    /\ restarts' = restarts
    /\ cycle.pc = "insert_positions"
    /\ flp_positions' # flp_positions

\* amount * factor / MAX_FACTOR is zero
DelegatedZero(amount, factor) == amount.m * factor = 0

\* the position row of this snapshot for the holder of pair p and its preference pref
PositionRowOf(table, p, pref) ==
    {r \in table : /\ r.ts = cycle.loc.now
                   /\ r.ticker = cycle.loc.ticker
                   /\ r.wallet = p.entry.ar_address
                   /\ r.eoa = p.entry.eoa
                   /\ r.project = pref.wallet_to
                   /\ r.factor = pref.factor}

\* preference k of pair i yields a position row: it names a known project and the
\* delegated amount and the delegated native amount are not both zero
YieldsRow(i, k) ==
    LET p == cycle.loc.pairs[i]
        pref == p.delegation.delegation_prefs[k]
        amount == Unwrap(normalize_amount(p.entry.amount, cycle.loc.ticker))
    IN  /\ pref.wallet_to \in {PI_PID, LOAD_PID, APUS_PID}
        /\ ~(/\ DelegatedZero(amount, pref.factor)
             /\ DelegatedZero(p.ar_balance, pref.factor))

\* a row built after that of preference k of pair i, from another entry of the same
\* wallet or another preference of the same project, has its sorting key
Superseded(i, k) ==
    LET pairs == cycle.loc.pairs
    IN  \E j \in Parsed(pairs, cycle.loc.ticker) :
            \E l \in DOMAIN pairs[j].delegation.delegation_prefs :
                /\ j > i \/ (j = i /\ l > k)
                /\ YieldsRow(j, l)
                /\ pairs[j].entry.ar_address = pairs[i].entry.ar_address
                /\ pairs[j].delegation.delegation_prefs[l].wallet_to
                        = pairs[i].delegation.delegation_prefs[k].wallet_to
                /\ \/ pairs[j].entry.eoa # pairs[i].entry.eoa
                   \/ pairs[j].delegation.delegation_prefs[l].factor
                        # pairs[i].delegation.delegation_prefs[k].factor

PairsCollected == cycle.pc \in {"insert_balances", "insert_delegations", "insert_positions"}

\* the payload is the synthetic default of the address: one preference, to the PI
\* project, with the whole factor
IsPiDefaultOf(payload, address) ==
    /\ payload.wallet = Some(address)
    /\ Len(payload.delegation_prefs) = 1
    /\ payload.delegation_prefs[1].wallet_to = PI_PID
    /\ payload.delegation_prefs[1].factor = MAX_FACTOR
    /\ payload.total_factor = Some(MAX_FACTOR)

\* what the gateway holds for the address: the resolution of its preferences
Resolution(address) == get_wallet_delegations(address, env.wallets[address].lookup)

\* the step in which index_ticker has stored the delegation rows of its snapshot
DelegationsStored ==
    /\ restarts' = restarts
    /\ cycle.pc = "insert_delegations"
    /\ wallet_delegations' # wallet_delegations

\* the step in which index_ticker has stored the balance rows of its snapshot
BalancesStored ==
    /\ restarts' = restarts
    /\ cycle.pc = "insert_balances"
    /\ wallet_balances' # wallet_balances

\* the pairs collected for entry k of the balance sheet
PairsOfEntry(k) ==
    {i \in DOMAIN cycle.loc.pairs : cycle.loc.pairs[i].entry = cycle.loc.balances[k]}

\* index_ticker is in its fan-out or past it, with the futures of the sheet
InSnapshot == cycle.pc = "fanout" \/ PairsCollected

\* pair i is the last pair of its wallet among the pairs whose amount parses: the one
\* whose balance and delegation rows the tables keep
LastOfWallet(i) ==
    \A j \in Parsed(cycle.loc.pairs, cycle.loc.ticker) :
        j > i => cycle.loc.pairs[j].entry.ar_address # cycle.loc.pairs[i].entry.ar_address

\* C35: a failed enrichment request ends neither the fan-out nor index_ticker: every
\* step of the fan-out stays in it or goes on to the inserts, and keeps the sheet and
\* the pairs collected so far.  Every entry whose future is done has exactly one pair,
\* no other entry has one, and the collected pairs are as many as the entries.  The
\* payload of an entry is the PI default of its wallet if its resolution request
\* failed or the gateway holds no resolvable preference of the wallet, then its
\* position rows are PI rows with the whole factor, and is what the gateway holds
\* for the wallet otherwise; its native balance is zero if its balance request
\* failed and the balance the gateway holds otherwise: an entry is touched by its own
\* failures only.  The stored balance and delegation rows of a wallet are those of
\* its last collected entry whose amount parses
C35_EnrichmentFailure ==
    /\ [](InSnapshot =>
            \A k \in DOMAIN cycle.loc.balances :
                /\ Cardinality(PairsOfEntry(k))
                        = IF cycle.fan.phase[k] = "done" THEN 1 ELSE 0
                /\ \A i \in PairsOfEntry(k) :
                    LET p == cycle.loc.pairs[i]
                        address == cycle.loc.balances[k].ar_address
                    IN  /\ IF cycle.fan.failed[k][1] \/ ~Resolution(address).ok
                           THEN /\ IsPiDefaultOf(p.delegation, address)
                                /\ i \in Parsed(cycle.loc.pairs, cycle.loc.ticker) =>
                                      \A r \in Range(PairPositionRows(cycle.loc.now,
                                                                      cycle.loc.ticker, p)) :
                                          r.project = PI_PID /\ r.factor = MAX_FACTOR
                           ELSE p.delegation = Unwrap(Resolution(address).res)
                        /\ p.ar_balance =
                                IF cycle.fan.failed[k][2] THEN Decimal_ZERO
                                ELSE unwrap_or(env.wallets[address].ar, Decimal_ZERO))
    /\ [](PairsCollected => Len(cycle.loc.pairs) = Len(cycle.loc.balances))
    /\ [][(cycle.pc = "fanout" /\ restarts' = restarts) =>
            /\ cycle'.pc \in {"fanout", "insert_balances"}
            /\ cycle'.i = cycle.i
            /\ cycle'.loc.tx_id = cycle.loc.tx_id
            /\ cycle'.loc.balances = cycle.loc.balances
            /\ Len(cycle'.loc.pairs) >= Len(cycle.loc.pairs)
            /\ SubSeq(cycle'.loc.pairs, 1, Len(cycle.loc.pairs)) = cycle.loc.pairs]_vars
    /\ [][BalancesStored =>
            \A i \in Parsed(cycle.loc.pairs, cycle.loc.ticker) :
                LastOfWallet(i) =>
                    \E r \in wallet_balances' :
                        /\ r.ts = cycle.loc.now
                        /\ r.ticker = cycle.loc.ticker
                        /\ r.wallet = cycle.loc.pairs[i].entry.ar_address
                        /\ r.eoa = cycle.loc.pairs[i].entry.eoa
                        /\ r.ar_balance = cycle.loc.pairs[i].ar_balance]_vars
    /\ [][DelegationsStored =>
            \A i \in Parsed(cycle.loc.pairs, cycle.loc.ticker) :
                LastOfWallet(i) =>
                    \E r \in wallet_delegations' :
                        /\ r.ts = cycle.loc.now
                        /\ r.wallet = cycle.loc.pairs[i].entry.ar_address
                        /\ r.payload = cycle.loc.pairs[i].delegation]_vars

\* the resolution and the balance fetch of one holder failed and those of another
\* holder of the same snapshot did not, and the balance and delegation rows of the
\* snapshot are stored
C35_Witness ==
    /\ cycle.pc = "insert_positions"
    /\ wallet_delegations # {}
    /\ \E k \in DOMAIN cycle.loc.balances : cycle.fan.failed[k] = <<TRUE, TRUE>>
    /\ \E k \in DOMAIN cycle.loc.balances : cycle.fan.failed[k] = <<FALSE, FALSE>>
    /\ \E i, j \in DOMAIN cycle.loc.pairs :
        LET p == cycle.loc.pairs[i]
            q == cycle.loc.pairs[j]
        IN  /\ i # j
            /\ IsPiDefaultOf(p.delegation, p.entry.ar_address)
            /\ ~IsPiDefaultOf(Unwrap(Resolution(p.entry.ar_address).res), p.entry.ar_address)
            /\ p.ar_balance = Decimal_ZERO
            /\ env.wallets[p.entry.ar_address].ar # Some(Decimal_ZERO)
            /\ q.delegation = Unwrap(Resolution(q.entry.ar_address).res)
            /\ ~IsPiDefaultOf(q.delegation, q.entry.ar_address)
            /\ q.ar_balance # Decimal_ZERO

(***************************************************************************)
(* C36: one row per height of the global stats indexer, empty blocks       *)
(* included                                                                *)
(***************************************************************************)
StatsCounters == {"tx_count", "eval_count", "transfer_count", "new_process_count",
                  "new_module_count", "active_users", "active_processes"}

StatsRolling == {"tx_count_rolling", "processes_rolling", "modules_rolling"}

\* the row before the height h: the stored row of h - 1, the checkpoint below the
\* first height
RowBefore(h) ==
    IF h - 1 = LATEST_AGG_STATS_SET.height THEN LATEST_AGG_STATS_SET
    ELSE CHOOSE r \in atlas_explorer : r.height = h - 1

\* the gateway holds no transaction of the data protocol in the block of height h
NoMessagesAt(h) == StatsBlockKind(h - StartHeight("stats")) = "empty"

\* C36: the stored rows are one per height, for the consecutive heights from the
\* one above the seed up to the height the loop has reached; the handler commits the
\* row of the loop's height and the loop goes to the next height; the row of a block
\* without messages has its base counters at zero and the rolling counters of the
\* row before it
C36_OneRowPerHeight ==
    /\ [](/\ \A r, o \in atlas_explorer : r.height = o.height => r = o
          /\ \A r \in atlas_explorer :
                /\ r.height > LATEST_AGG_STATS_SET.height
                /\ r.height - 1 > LATEST_AGG_STATS_SET.height =>
                        \E o \in atlas_explorer : o.height = r.height - 1
                /\ "stats" \in active /\ stats.pc # "off" => r.height < stats.height
                /\ NoMessagesAt(r.height) =>
                        /\ \A col \in StatsCounters : r[col] = 0
                        /\ \A col \in StatsRolling : r[col] = RowBefore(r.height)[col])
    /\ [][StatsRunStep /\ HandlerInvoked /\ stats'.pc # "failed" =>
            /\ \E r \in atlas_explorer' : r.height = stats.height
            /\ \A r \in atlas_explorer' \ atlas_explorer : r.height = stats.height
            /\ atlas_explorer \subseteq atlas_explorer'
            /\ stats'.height = stats.height + 1]_vars

\* the row of a block without messages stands between the rows of its neighbours and
\* carries rolling counters that are not zero
C36_Witness ==
    \E r, b, a \in atlas_explorer :
        /\ NoMessagesAt(r.height)
        /\ b.height = r.height - 1
        /\ a.height = r.height + 1
        /\ r.tx_count = 0
        /\ r.processes_rolling = b.processes_rolling
        /\ r.processes_rolling > 0
        /\ a.tx_count > 0

(***************************************************************************)
(* C37: the seed of the global stats indexer                               *)
(***************************************************************************)
\* the row the store holds for the greatest height, the checkpoint when it holds none
SeedOf(table) ==
    IF table = {} THEN LATEST_AGG_STATS_SET
    ELSE CHOOSE r \in table : \A o \in table : o.height <= r.height

\* the stats thread is started: by the boot of the process
StatsSeeded == restarts' = restarts + 1 /\ "stats" \in active

\* C37: a started stats thread has for its seed the stored row of the greatest height
\* or, with no row stored, the checkpoint, and its first height is the one above the
\* seed; the loop keeps that relation to the store; the row the handler is given has
\* the height above the last row and, for its rolling counters, those of the last row
\* plus its own base counters
C37_SeedAndFirstRow ==
    /\ []("stats" \in active =>
            /\ stats.last = SeedOf(atlas_explorer)
            /\ stats.height = stats.last.height + 1)
    /\ [][StatsSeeded =>
            /\ stats'.last = SeedOf(atlas_explorer)
            /\ stats'.height = SeedOf(atlas_explorer).height + 1
            /\ stats'.pc = "tip"]_vars
    /\ [](("stats" \in active /\ stats.pc = "handler") =>
            /\ stats.cur.height = stats.last.height + 1
            /\ stats.cur.tx_count_rolling =
                    BigAdd(stats.last.tx_count_rolling, stats.cur.tx_count)
            /\ stats.cur.processes_rolling =
                    stats.last.processes_rolling + stats.cur.new_process_count
            /\ stats.cur.modules_rolling =
                    stats.last.modules_rolling + stats.cur.new_module_count)

\* a thread seeded from a stored row hands a row above it, with transactions, to
\* the handler
C37_Witness ==
    /\ "stats" \in active
    /\ restarts = 1
    /\ stats.pc = "handler"
    /\ stats.last \in atlas_explorer
    /\ stats.last # LATEST_AGG_STATS_SET
    /\ stats.cur.height = stats.last.height + 1
    /\ stats.cur.tx_count > 0
    /\ stats.cur.tx_count_rolling # stats.last.tx_count_rolling

(***************************************************************************)
(* C38: the sleep chosen after a failed page fetch                         *)
(***************************************************************************)
\* the errors the statement names besides HTTP 429: HTTP 5xx, HTTP 404, a timeout
NamedFailure(err) ==
    /\ ~is_rate_limit_error(err)
    /\ \/ is_retryable_http_error(err)
       \/ is_not_found_error(err)
       \/ is_timeout_error(err)

\* C38: after a failed page fetch a protocol worker sleeps 5 s for HTTP 429 and 1 s
\* for HTTP 5xx, HTTP 404 or a timeout; a token worker sleeps 300 s for each of
\* them, HTTP 429 included; the worker is back at the top of its loop
C38_Backoff ==
    \A s \in active \cap Streams :
        LET err == W(s).lastErr
        IN  /\ (s \in MainnetStreams /\ is_rate_limit_error(err)) =>
                    W(s).slept = 5 /\ W(s).pc = "loop"
            /\ (s \in MainnetStreams /\ NamedFailure(err)) =>
                    W(s).slept = 1 /\ W(s).pc = "loop"
            /\ (s \in TokenStreams /\ (is_rate_limit_error(err) \/ NamedFailure(err))) =>
                    W(s).slept = 300 /\ W(s).pc = "loop"

\* the statement as written: 5 s for HTTP 429 on every stream
C38_Original ==
    \A s \in active \cap Streams :
        LET err == W(s).lastErr
        IN  /\ is_rate_limit_error(err) => W(s).slept = 5
            /\ NamedFailure(err) =>
                    W(s).slept = IF s \in MainnetStreams THEN 1 ELSE 300

\* a token worker has slept after HTTP 429 at a height above its first
C38_Witness ==
    \E s \in active \cap TokenStreams :
        /\ is_rate_limit_error(W(s).lastErr)
        /\ W(s).slept = 300
        /\ W(s).lastReq.height > StartHeight(s)

(***************************************************************************)
(* SpecFanout: the fan-out of index_ticker, lines 257-266, one step per    *)
(* await.  buffer_unordered(n) takes futures from the iterator while fewer *)
(* than n are in progress and yields their outputs as they complete; each  *)
(* future awaits load_delegations and then load_ar_balance.  Init draws    *)
(* DELEGATION_CONCURRENCY and the balance sheet.                           *)
(***************************************************************************)
\* index_ticker has inserted the oracle row of the sheet and built its stream
FanoutCycle(now, ticker, sheet, n) ==
    [OffCycle EXCEPT
        !.pc = "fanout", !.now = now,
        !.loc = [now |-> now, ticker |-> ticker, tx_id |-> sheet.tx_id,
                 balances |-> sheet.balances, pairs |-> <<>>],
        !.fan = StartFan(n, sheet.balances)]

InitFanout ==
    /\ \E v \in ConcurrencyVars, t \in Tickers :
        \E j \in DOMAIN SnapshotOracle[t] :
            /\ env = [transport |-> {}, store |-> SnapshotEnv.store,
                      tips |-> {}, tipFails |-> FALSE,
                      blocks |-> [s \in Components |-> 0],
                      flaky |-> TRUE, tickers |-> <<t>>, mappings |-> <<>>,
                      oracle |-> SnapshotOracle, wallets |-> SnapshotWallets,
                      delegation_concurrency |-> v,
                      max_faults |-> 2 * Len(SnapshotOracle[t][j].balances)]
            /\ cycle = FanoutCycle(1, t, SnapshotOracle[t][j], Config_load_concurrency(v))
    /\ active = {}
    /\ worker = [s \in Streams |-> OffWorker(s)]
    /\ stats = OffStats
    /\ run = BootedRun
    /\ tail = OffTail
    /\ restarts = 0
    /\ EmptyStore
    /\ NoHistory
    /\ deleg = NoDeleg

NextFanout ==
    \/ FanoutStart
    \/ FanoutDelegation
    \/ FanoutBalance
    \/ IndexTickerInsertBalances
    \/ IndexTickerInsertDelegations
    \/ IndexTickerInsertPositions

SpecFanout == InitFanout /\ [][NextFanout]_vars

(***************************************************************************)
(* C39: the fan-out of a snapshot                                          *)
(***************************************************************************)
\* the triples of the sheet in the order of the sheet, from what each request gave
PairsInSheetOrder ==
    [k \in DOMAIN cycle.loc.balances |->
        LET entry == cycle.loc.balances[k]
            w == env.wallets[entry.ar_address]
        IN  Pair(entry,
                 load_delegations(entry.ar_address,
                                  IF cycle.fan.failed[k][1]
                                  THEN [ok |-> FALSE, edges |-> <<>>] ELSE w.lookup),
                 load_ar_balance(IF cycle.fan.failed[k][2] THEN None ELSE w.ar))]

\* collect() has returned and the rows are being written
FanCollected == cycle.pc \in {"insert_balances", "insert_delegations", "insert_positions"}

\* no two rows of the Vec that differ have one sorting key
KeysOnce(name, rows) ==
    \A i, j \in DOMAIN rows :
        SortingKey(name, rows[i]) = SortingKey(name, rows[j]) => rows[i] = rows[j]

MaxBroadcasts == 3

BroadcastId(i) == <<"m1", "m2", "m3", "m4", "m5">>[i]

\* the i-th broadcast: a Delegation-Mappings message with one mapping row
Broadcast(i) ==
    [tx_id |-> BroadcastId(i), height |-> 1700000 + i,
     rows |-> {[wallet_from |-> "w1", wallet_to |-> LOAD_PID, factor |-> 1000 * i]}]

InitMappings ==
    /\ \E flaky \in BOOLEAN, store \in {{}, SnapshotEnv.store} :
        env = [SnapshotEnv EXCEPT !.flaky = flaky, !.store = store,
                                  !.tickers = <<>>, !.mappings = <<>>]
    /\ active = {}
    /\ worker = [s \in Streams |-> OffWorker(s)]
    /\ stats = OffStats
    /\ run = BootedRun
    /\ tail = OffTail
    /\ restarts = 0
    /\ EmptyStore
    /\ NoHistory
    /\ cycle = Configured(OffCycle)
    /\ deleg = NoDeleg

\* the authority publishes its next broadcast, in a block above the ones before
Publish ==
    /\ Len(env.mappings) < MaxBroadcasts
    /\ env' = [env EXCEPT !.mappings = <<Broadcast(Len(env.mappings) + 1)>> \o @]
    /\ UNCHANGED <<active, worker, restarts, storeVars, statsVars, procVars>>

MappingsCycle ==
    \/ IndexDelegationMappings
    \/ IndexMappingsGate
    \/ StoreMappingBuild
    \/ StoreMappingInsert
    \/ IndexTickerLoad
    \/ RunOnce
    \/ RunTick

NextMappings == Publish \/ MappingsCycle

SpecMappings == InitMappings /\ [][NextMappings]_vars /\ WF_vars(MappingsCycle)

(***************************************************************************)
(* C40: every published broadcast is eventually stored                     *)
(***************************************************************************)
BroadcastPublished(i) == \E k \in DOMAIN env.mappings : env.mappings[k].tx_id = BroadcastId(i)

BroadcastStored(i) == has_delegation_mapping(delegation_mappings, BroadcastId(i))

\* no request to the gateway or to the store fails
Reliable == ~env.flaky /\ env.store = {}

\* C40: with a gateway and a store that never fail, every broadcast the authority has
\* published is eventually stored under its tx_id
C40_Original ==
    \A i \in 1..MaxBroadcasts :
        (BroadcastPublished(i) /\ Reliable) ~> BroadcastStored(i)

====
